---- MODULE Spec2Model ----
(***************************************************************************)
(* lcfilter: logcat line classification and three-stream routing.          *)
(*                                                                         *)
(* Text is modelled as a sequence of one-character strings.  An optional   *)
(* value (Python's None or a value) is the empty tuple or a one-element    *)
(* tuple holding the value.                                                *)
(***************************************************************************)
EXTENDS Integers, Sequences, FiniteSets, TLC

VARIABLES
    rules,          \* IgnoreConfig.rules: the ordered rule list
    scope_arg,      \* the scope_config argument given to FilterEngine (optional)
    scope_config,   \* FilterEngine.scope_config after construction
    engine_pc,      \* "building" (rules being added) or "ready" (engine built)
    entry_in,       \* the LogEntry handed to the classifier
    call,           \* the last engine call: its operation, entry and result
    config,         \* StreamRouter.config: category -> target path
    handles,        \* StreamRouter._handles: category -> stream
    opened_files,   \* StreamRouter._opened_files: the streams the router opened
    files,          \* the stream objects: path, position, buffer, closed flag
    disk,           \* what each path (or terminal) holds
    with_pc,        \* where the caller of the router is: before the with
                    \* block, in its body, leaving it on an error, after it
    wlog,           \* history: the write calls that returned normally
    raised,         \* history: the kinds of error raised so far
    raw,            \* monitor --raw
    color,          \* monitor --color/--no-color
    isatty,         \* whether the console writes to a terminal
    proc,           \* the adb logcat subprocess: none, running, terminated, waited
    proc_stdout,    \* the lines the subprocess has still to deliver
    mon_pc,         \* where monitor() is
    mlog,           \* history: the lines monitor() has handled
    line_in,        \* the argument of a call of parse_logcat_line
    parse_result,   \* what the call returned, None before the call
    stream_rest,    \* the text not yet fed to a LogcatStreamParser
    buffer,         \* LogcatStreamParser._buffer
    records,        \* history: the records feed and flush have produced
    stream_log,     \* history: the text fed and the length of the longest chunk
    parser_pc,      \* where the user of the parser is
    pre_filters,    \* FilterEngine._pre_filters: the hooks in registration order
    post_filters,   \* FilterEngine._post_filters: the hooks in registration order
    stats,          \* a FilterStats object: its three counters and its count table
    recorded,       \* history: the results handed to FilterStats.record
    producer,       \* the writes the subprocess has still to make, in order
    stderr_pipe     \* how much the pipe of the subprocess's standard error holds

engineVars == <<rules, scope_arg, scope_config, engine_pc, entry_in, call>>

routerVars == <<config, handles, opened_files, files, disk, with_pc, wlog, raised>>

monitorVars == <<raw, color, isatty, proc, proc_stdout, mon_pc, mlog>>

parserVars == <<line_in, parse_result, stream_rest, buffer, records, stream_log, parser_pc>>

filterVars == <<pre_filters, post_filters, stats, recorded>>

pipeVars == <<producer, stderr_pipe>>

vars == <<engineVars, routerVars, monitorVars, pipeVars, parserVars, filterVars>>

exceptEngine == <<routerVars, monitorVars, pipeVars, parserVars, filterVars>>

exceptRouter == <<engineVars, monitorVars, pipeVars, parserVars, filterVars>>

exceptParser == <<engineVars, routerVars, monitorVars, pipeVars, filterVars>>

(***************************************************************************)
(* Bounds                                                                  *)
(***************************************************************************)
MaxRules == 3

MaxWrites == 2

MaxLines == 2

MaxHooks == 2

MaxRecords == 4

MaxScript == 4

PipeCapacity == 2

(***************************************************************************)
(* Optional values                                                         *)
(***************************************************************************)
None == <<>>

Some(v) == <<v>>

IsNone(o) == o = <<>>

Val(o) == o[1]

(***************************************************************************)
(* models.py: log levels, entries, rules                                   *)
(***************************************************************************)
LogLevel == {"V", "D", "I", "W", "E", "F", "S"}

TagA == <<"A">>

TagB == <<"B">>

EmptyStr == <<>>

\* re.search with a pattern made of literal characters only: the pattern
\* occurs in the text as a contiguous run (the empty pattern occurs anywhere).
ReSearch(pattern_str, text) ==
    \E i \in 1..(Len(text) + 1) :
        /\ i + Len(pattern_str) - 1 <= Len(text)
        /\ SubSeq(text, i, i + Len(pattern_str) - 1) = pattern_str

IgnoreRuleTag(tag) == [kind |-> "TAG", tag |-> tag, level |-> "-", pattern_str |-> <<>>]

IgnoreRuleLevel(level) == [kind |-> "LEVEL", tag |-> <<>>, level |-> level, pattern_str |-> <<>>]

IgnoreRuleTagLevel(tag, level) == [kind |-> "TAGLEVEL", tag |-> tag, level |-> level, pattern_str |-> <<>>]

IgnoreRulePattern(pattern_str) == [kind |-> "PATTERN", tag |-> <<>>, level |-> "-", pattern_str |-> pattern_str]

IgnoreRuleLinePattern(pattern_str) == [kind |-> "LINEPATTERN", tag |-> <<>>, level |-> "-", pattern_str |-> pattern_str]

\* rule.matches(entry), one branch per rule class
Matches(rule, entry) ==
    CASE rule.kind = "TAG" -> entry.tag = Some(rule.tag)
      [] rule.kind = "LEVEL" -> entry.level = Some(rule.level)
      [] rule.kind = "TAGLEVEL" -> entry.tag = Some(rule.tag) /\ entry.level = Some(rule.level)
      [] rule.kind = "PATTERN" -> ReSearch(rule.pattern_str, entry.message)
      [] rule.kind = "LINEPATTERN" -> ReSearch(rule.pattern_str, entry.raw_line)

\* ScopeConfig(): a scope with an empty tag set
ScopeConfig(tags) == [tags |-> tags]

(***************************************************************************)
(* config_scope.py                                                         *)
(***************************************************************************)
\* _build_scope_config(data), data the tables of the file: the tags of the
\* [expected_tags] table are stored under expected_tags; the field tags, the
\* one is_event_in_scope reads, is not assigned and keeps its default
build_scope_config(data) ==
    [tags |-> {},
     expected_tags |-> IF "expected_tags" \in DOMAIN data THEN data.expected_tags ELSE <<>>]

\* parse_scope_content(content), content given as the tables tomllib.loads
\* makes of it
parse_scope_content(content) == build_scope_config(content)

(***************************************************************************)
(* filter_engine.py                                                        *)
(***************************************************************************)
\* Faulty variant: the empty-tag test left out
is_event_in_scope_no_empty_test(entry, scope) ==
    IF IsNone(scope) THEN FALSE
    ELSE IF IsNone(entry.tag) THEN FALSE
    ELSE Val(entry.tag) \in Val(scope).tags

is_event_in_scope(entry, scope) ==
    IF IsNone(scope) THEN FALSE
    ELSE LET tag == IF IsNone(entry.tag) THEN EmptyStr ELSE Val(entry.tag)
         IN  IF tag = EmptyStr THEN FALSE
             ELSE tag \in Val(scope).tags

is_pattern_based_rule(rule) == rule.kind \in {"PATTERN", "LINEPATTERN"}

\* The loop of _check_ignore_rules from index i on: the first rule that is
\* not skipped and matches, or None.
RECURSIVE CheckFrom(_, _, _, _)
CheckFrom(rs, entry, in_scope, i) ==
    IF i > Len(rs) THEN None
    ELSE IF in_scope /\ ~is_pattern_based_rule(rs[i]) THEN CheckFrom(rs, entry, in_scope, i + 1)
    ELSE IF Matches(rs[i], entry) THEN Some(rs[i])
    ELSE CheckFrom(rs, entry, in_scope, i + 1)

\* Faulty variant: no rule is skipped for an in-scope entry
check_ignore_rules_no_exemption(rs, scope, entry) ==
    CheckFrom(rs, entry, FALSE, 1)

\* Faulty variant: an in-scope entry is never matched against any rule
check_ignore_rules_scope_wins(rs, scope, entry) ==
    IF is_event_in_scope(entry, scope) THEN None ELSE CheckFrom(rs, entry, FALSE, 1)

\* Faulty variant: the scan keeps going and reports the last match
RECURSIVE CheckLastFrom(_, _, _, _, _)
CheckLastFrom(rs, entry, in_scope, i, found) ==
    IF i > Len(rs) THEN found
    ELSE IF in_scope /\ ~is_pattern_based_rule(rs[i]) THEN CheckLastFrom(rs, entry, in_scope, i + 1, found)
    ELSE IF Matches(rs[i], entry) THEN CheckLastFrom(rs, entry, in_scope, i + 1, Some(rs[i]))
    ELSE CheckLastFrom(rs, entry, in_scope, i + 1, found)

check_ignore_rules_last_match(rs, scope, entry) ==
    CheckLastFrom(rs, entry, is_event_in_scope(entry, scope), 1, None)

check_ignore_rules(rs, scope, entry) ==
    CheckFrom(rs, entry, is_event_in_scope(entry, scope), 1)

\* filter_entry with no hooks registered
filter_entry(rs, scope, entry) ==
    LET matched_rule == check_ignore_rules(rs, scope, entry)
    IN  [entry |-> entry, should_display |-> IsNone(matched_rule), matched_rule |-> matched_rule]

\* The loop of route_entry from index i on
RECURSIVE RouteFrom(_, _, _)
RouteFrom(rs, entry, i) ==
    IF i > Len(rs) THEN [entry |-> entry, category |-> "NOISE", matched_rule |-> None]
    ELSE IF Matches(rs[i], entry)
         THEN [entry |-> entry, category |-> "IGNORED", matched_rule |-> Some(rs[i])]
    ELSE RouteFrom(rs, entry, i + 1)

\* Faulty variant: the rules are scanned before the scope test
route_entry_rules_first(rs, scope, entry) ==
    LET r == RouteFrom(rs, entry, 1)
    IN  IF r.category = "IGNORED" THEN r
        ELSE IF is_event_in_scope(entry, scope)
             THEN [entry |-> entry, category |-> "IN_SCOPE", matched_rule |-> None]
        ELSE r

\* Faulty variant: the scope exemption of filter mode applied to routing
route_entry_pattern_only(rs, scope, entry) ==
    IF is_event_in_scope(entry, scope)
    THEN [entry |-> entry, category |-> "IN_SCOPE", matched_rule |-> None]
    ELSE LET m == CheckFrom(rs, entry, TRUE, 1)
         IN  [entry |-> entry, category |-> IF IsNone(m) THEN "NOISE" ELSE "IGNORED",
              matched_rule |-> m]

\* Faulty variant: the rule that matched is not reported
route_entry_rule_dropped(rs, scope, entry) ==
    IF is_event_in_scope(entry, scope)
    THEN [entry |-> entry, category |-> "IN_SCOPE", matched_rule |-> None]
    ELSE [RouteFrom(rs, entry, 1) EXCEPT !.matched_rule = None]

route_entry(rs, scope, entry) ==
    IF is_event_in_scope(entry, scope)
    THEN [entry |-> entry, category |-> "IN_SCOPE", matched_rule |-> None]
    ELSE RouteFrom(rs, entry, 1)

FilterResult(entry, should_display, matched_rule) ==
    [entry |-> entry, should_display |-> should_display, matched_rule |-> matched_rule]

\* The pre-filter hooks of the model: what hook(entry) returns.  always_hide
\* is the hook of the tests, the others return nothing or a result that shows.
PreHooks == {"noop_filter", "always_hide", "always_show"}

pre_filter(hook, entry) ==
    CASE hook = "noop_filter" -> None
      [] hook = "always_hide" ->
            IF entry.tag = Some(TagA) THEN Some(FilterResult(entry, FALSE, None)) ELSE None
      [] hook = "always_show" -> Some(FilterResult(entry, TRUE, None))

\* The post-filter hooks of the model: what hook(result) returns.  force_show
\* is the hook of the tests, force_hide its opposite.
PostHooks == {"force_show", "force_hide"}

post_filter(hook, result) ==
    CASE hook = "force_show" ->
            IF result.entry.level = Some("I")
            THEN FilterResult(result.entry, TRUE, result.matched_rule)
            ELSE result
      [] hook = "force_hide" -> FilterResult(result.entry, FALSE, result.matched_rule)

\* One call made while filter_entry runs: of a pre-filter, of
\* _check_ignore_rules or of a post-filter, with what it got and returned
HookCall(kind, index, arg, out) == [kind |-> kind, index |-> index, arg |-> arg, out |-> out]

\* The loop of _apply_post_filters from index i on; trace holds the calls
\* made so far
RECURSIVE PostFrom(_, _, _, _)
PostFrom(post, result, i, trace) ==
    IF i > Len(post) THEN [result |-> result, trace |-> trace]
    ELSE PostFrom(post, post_filter(post[i], result), i + 1,
                  Append(trace, HookCall("post", i, result, post_filter(post[i], result))))

\* Faulty variant: every post-filter is given the verdict, not the result of
\* the post-filter before it
RECURSIVE PostFromVerdict(_, _, _, _, _)
PostFromVerdict(post, verdict, result, i, trace) ==
    IF i > Len(post) THEN [result |-> result, trace |-> trace]
    ELSE PostFromVerdict(post, verdict, post_filter(post[i], verdict), i + 1,
                         Append(trace, HookCall("post", i, verdict, post_filter(post[i], verdict))))

apply_post_filters_unchained(post, result, trace) == PostFromVerdict(post, result, result, 1, trace)

apply_post_filters(post, result, trace) == PostFrom(post, result, 1, trace)

\* The loop over the pre-filters from index i on, then the rules
RECURSIVE PreFrom(_, _, _, _, _, _, _)
PreFrom(pre, post, rs, scope, entry, i, trace) ==
    IF i > Len(pre)
    THEN apply_post_filters(post, filter_entry(rs, scope, entry),
                            Append(trace, HookCall("rules", 0, entry, filter_entry(rs, scope, entry))))
    ELSE IF ~IsNone(pre_filter(pre[i], entry))
    THEN apply_post_filters(post, Val(pre_filter(pre[i], entry)),
                            Append(trace, HookCall("pre", i, entry, pre_filter(pre[i], entry))))
    ELSE PreFrom(pre, post, rs, scope, entry, i + 1,
                 Append(trace, HookCall("pre", i, entry, None)))

\* Faulty variant: a pre-filter that returns a result does not end the loop;
\* the rules are still evaluated and decide
RECURSIVE PreFromNoReturn(_, _, _, _, _, _, _)
PreFromNoReturn(pre, post, rs, scope, entry, i, trace) ==
    IF i > Len(pre)
    THEN apply_post_filters(post, filter_entry(rs, scope, entry),
                            Append(trace, HookCall("rules", 0, entry, filter_entry(rs, scope, entry))))
    ELSE PreFromNoReturn(pre, post, rs, scope, entry, i + 1,
                         Append(trace, HookCall("pre", i, entry, pre_filter(pre[i], entry))))

filter_entry_hooks_no_return(pre, post, rs, scope, entry) ==
    PreFromNoReturn(pre, post, rs, scope, entry, 1, <<>>)

\* FilterEngine.filter_entry with the hooks registered: the result and the
\* calls made to reach it
filter_entry_hooks(pre, post, rs, scope, entry) == PreFrom(pre, post, rs, scope, entry, 1, <<>>)

\* Faulty variant: the key names the class of the rule only
rule_key_class_only(rule) ==
    CASE rule.kind = "TAG" -> <<"IgnoreRuleTag">>
      [] rule.kind = "LEVEL" -> <<"IgnoreRuleLevel">>
      [] rule.kind = "TAGLEVEL" -> <<"IgnoreRuleTagLevel">>
      [] rule.kind = "PATTERN" -> <<"IgnoreRulePattern">>
      [] rule.kind = "LINEPATTERN" -> <<"IgnoreRuleLinePattern">>

\* FilterStats._rule_key: the class name, a colon and the repr of the rule,
\* which names every field of the rule but the compiled pattern
rule_key(rule) ==
    CASE rule.kind = "TAG" -> <<"IgnoreRuleTag", ":", "tag", "=">> \o rule.tag
      [] rule.kind = "LEVEL" -> <<"IgnoreRuleLevel", ":", "level", "=", rule.level>>
      [] rule.kind = "TAGLEVEL" ->
            <<"IgnoreRuleTagLevel", ":", "tag", "=">> \o rule.tag \o <<",", "level", "=", rule.level>>
      [] rule.kind = "PATTERN" -> <<"IgnoreRulePattern", ":", "pattern_str", "=">> \o rule.pattern_str
      [] rule.kind = "LINEPATTERN" ->
            <<"IgnoreRuleLinePattern", ":", "pattern_str", "=">> \o rule.pattern_str

\* FilterStats.__init__
NewFilterStats ==
    [total_entries |-> 0, displayed_entries |-> 0, ignored_entries |-> 0,
     rule_match_counts |-> [k \in {} |-> 0]]

\* rule_match_counts.get(key, 0) + 1 stored under key
CountUp(counts, key) ==
    [k \in DOMAIN counts \cup {key} |->
        IF k = key THEN (IF key \in DOMAIN counts THEN counts[key] ELSE 0) + 1 ELSE counts[k]]

\* Faulty variant: a displayed result is counted as ignored
record_all_ignored(st, result) ==
    [st EXCEPT !.total_entries = @ + 1, !.ignored_entries = @ + 1,
               !.rule_match_counts = IF IsNone(result.matched_rule) THEN @
                                     ELSE CountUp(@, rule_key(Val(result.matched_rule)))]

\* FilterStats.record
record(st, result) ==
    IF result.should_display
    THEN [st EXCEPT !.total_entries = @ + 1, !.displayed_entries = @ + 1]
    ELSE [st EXCEPT !.total_entries = @ + 1, !.ignored_entries = @ + 1,
                    !.rule_match_counts = IF IsNone(result.matched_rule) THEN @
                                          ELSE CountUp(@, rule_key(Val(result.matched_rule)))]

\* FilterStats.filter_rate, (ignored_entries / total_entries) * 100, as the
\* fraction num/den
filter_rate(st) ==
    IF st.total_entries = 0 THEN [num |-> 0, den |-> 1]
    ELSE [num |-> st.ignored_entries * 100, den |-> st.total_entries]

(***************************************************************************)
(* stream_router.py                                                        *)
(***************************************************************************)
Categories == <<"IN_SCOPE", "IGNORED", "NOISE">>

CategorySet == {"IN_SCOPE", "IGNORED", "NOISE"}

is_stdout(path) == path = "stdout"

is_stderr(path) == path = "stderr"

is_devnull(path) == path = "/dev/null"

is_file(path) == ~(is_stdout(path) \/ is_stderr(path) \/ is_devnull(path))

\* RoutingConfig.from_options: an option that is None falls back to the default
from_options(in_scope, ignored, noise) ==
    [ IN_SCOPE |-> IF IsNone(in_scope) THEN "stdout" ELSE Val(in_scope),
      IGNORED |-> IF IsNone(ignored) THEN "/dev/null" ELSE Val(ignored),
      NOISE |-> IF IsNone(noise) THEN "stdout" ELSE Val(noise) ]

NL == "\n"

endswith_newline(line) == Len(line) > 0 /\ line[Len(line)] = NL

\* Faulty variant: the terminator is always appended
write_text_always_newline(line) == line \o <<NL>>

\* What write() hands to the stream: the line, then a terminator if the line
\* does not end with one
write_text(line) == IF endswith_newline(line) THEN line ELSE line \o <<NL>>

\* The paths that name shared process streams rather than files
StdStreams == {"stdout", "stderr"}

FilePaths == {"x.log", "y.log", "z.log"}

OldContent == <<"o", NL>>

\* A stream object just opened on path
NewStream(path) == [path |-> path, pos |-> 0, buf |-> <<>>, closed |-> FALSE]

\* _open_stream for the target of category c, followed by the assignment to
\* _handles[c].  st holds the router's fields and the disk.  The stream the
\* router opens for a category is named after the category.
open_stream(st, c) ==
    LET target == st.config[c]
    IN  IF is_stdout(target) THEN [st EXCEPT !.handles = c :> "stdout" @@ @]
        ELSE IF is_stderr(target) THEN [st EXCEPT !.handles = c :> "stderr" @@ @]
        ELSE IF is_devnull(target)
             THEN [st EXCEPT !.handles = c :> c @@ @,
                             !.opened_files = Append(@, c),
                             !.files = c :> NewStream("/dev/null") @@ @]
        ELSE [st EXCEPT !.handles = c :> c @@ @,
                        !.opened_files = Append(@, c),
                        !.files = c :> NewStream(target) @@ @,
                        !.disk = [@ EXCEPT ![target] = <<>>]]

\* The first n statements of __enter__
RECURSIVE EnterUpTo(_, _)
EnterUpTo(st, n) ==
    IF n = 0 THEN st ELSE open_stream(EnterUpTo(st, n - 1), Categories[n])

\* The bytes data stored at offset pos of content
Overwrite(content, pos, data) ==
    SubSeq(content, 1, pos) \o data \o SubSeq(content, pos + Len(data) + 1, Len(content))

\* Faulty variant: flush() left out, the text stays in the stream's buffer
stream_write_flush_unflushed(st, h, text) ==
    [st EXCEPT !.files[h].buf = @ \o text]

\* stream.write(text) and stream.flush() on stream h, both succeeding: the
\* buffered text goes to the stream's path at the stream's position (a
\* terminal or pipe takes it at its end, the discard device drops it).
stream_write_flush(st, h, text) ==
    LET f == st.files[h]
        data == f.buf \o text
    IN  IF f.path \in StdStreams
        THEN [st EXCEPT !.disk[f.path] = @ \o data, !.files[h].buf = <<>>]
        ELSE IF is_devnull(f.path)
        THEN [st EXCEPT !.files[h].buf = <<>>]
        ELSE [st EXCEPT !.disk[f.path] = Overwrite(@, f.pos, data),
                        !.files[h].pos = f.pos + Len(data),
                        !.files[h].buf = <<>>]

\* f.close() on stream h: what is still buffered is flushed, unless the
\* close fails (flushok = FALSE); the stream is closed either way.
stream_close(st, h, flushok) ==
    LET flushed == IF flushok THEN stream_write_flush(st, h, <<>>) ELSE st
    IN  [flushed EXCEPT !.files[h].buf = <<>>, !.files[h].closed = TRUE]

\* Faulty variant: the first close that raises ends the loop
RECURSIVE CloseFromAbort(_, _, _)
CloseFromAbort(st, i, failing) ==
    IF i > Len(st.opened_files) THEN st
    ELSE IF st.opened_files[i] \in failing
         THEN stream_close(st, st.opened_files[i], FALSE)
    ELSE CloseFromAbort(stream_close(st, st.opened_files[i], TRUE), i + 1, failing)

\* The loop of __exit__ from index i on; failing holds the streams whose
\* close raises (the error is caught and the loop goes on)
RECURSIVE CloseFrom(_, _, _)
CloseFrom(st, i, failing) ==
    IF i > Len(st.opened_files) THEN st
    ELSE CloseFrom(stream_close(st, st.opened_files[i], st.opened_files[i] \notin failing),
                   i + 1, failing)

\* Faulty variant of exit_router: the two tables are not cleared
exit_router_keep_tables(st, failing) == CloseFrom(st, 1, failing)

\* Faulty variant of exit_router: a close error is not caught
exit_router_abort(st, failing) ==
    LET closed == CloseFromAbort(st, 1, failing)
    IN  IF failing \cap { st.opened_files[i] : i \in 1..Len(st.opened_files) } # {}
        THEN closed
        ELSE [closed EXCEPT !.opened_files = <<>>, !.handles = <<>>]

\* __exit__: close the opened streams, then clear both tables
exit_router(st, failing) ==
    LET closed == CloseFrom(st, 1, failing)
    IN  [closed EXCEPT !.opened_files = <<>>, !.handles = <<>>]

\* The router's fields and the disk as one record, and back
RouterState ==
    [config |-> config, handles |-> handles, opened_files |-> opened_files,
     files |-> files, disk |-> disk]

SetRouterState(st) ==
    /\ handles' = st.handles
    /\ opened_files' = st.opened_files
    /\ files' = st.files
    /\ disk' = st.disk

(***************************************************************************)
(* Inputs of the router                                                    *)
(***************************************************************************)
InScopeOptions == {None, Some("x.log"), Some("stderr")}

IgnoredOptions == {None, Some("y.log"), Some("x.log")}

NoiseOptions == {None, Some("z.log"), Some("x.log")}

WriteLines == {<<"a">>, <<"b", NL>>}

StdFiles == [h \in StdStreams |-> NewStream(h)]

InitialDisk == [p \in FilePaths \cup StdStreams |-> IF p \in FilePaths THEN OldContent ELSE <<>>]

(***************************************************************************)
(* Router actions                                                          *)
(***************************************************************************)
\* StreamRouter.__init__
RouterFields ==
    /\ handles = <<>>
    /\ opened_files = <<>>
    /\ files = StdFiles
    /\ disk = InitialDisk
    /\ with_pc = "before"
    /\ wlog = <<>>
    /\ raised = {}

RouterInit ==
    /\ \E i \in InScopeOptions, g \in IgnoredOptions, n \in NoiseOptions :
            config = from_options(i, g, n)
    /\ RouterFields

\* __enter__ with every open succeeding
Enter ==
    /\ with_pc = "before"
    /\ SetRouterState(EnterUpTo(RouterState, 3))
    /\ with_pc' = "body"
    /\ UNCHANGED <<config, wlog, raised, exceptRouter>>

\* __enter__ where the open for the k-th category raises: the statements
\* before it have run, the with body is not entered and __exit__ is not called
EnterFail ==
    /\ with_pc = "before"
    /\ \E k \in 1..3 :
        /\ is_file(config[Categories[k]])
        /\ SetRouterState(EnterUpTo(RouterState, k - 1))
    /\ with_pc' = "enter_failed"
    /\ raised' = raised \cup {"open"}
    /\ UNCHANGED <<config, wlog, exceptRouter>>

\* write(category, line) returning normally: the router holds a stream for
\* the category and the stream takes the text
Write ==
    /\ with_pc \in {"before", "body", "after", "after_again"}
    /\ Len(wlog) < MaxWrites
    /\ \E c \in DOMAIN handles, line \in WriteLines :
        /\ ~files[handles[c]].closed
        /\ SetRouterState(stream_write_flush(RouterState, handles[c], write_text(line)))
        /\ wlog' = Append(wlog, [category |-> c, line |-> line])
    /\ UNCHANGED <<config, with_pc, raised, exceptRouter>>

\* Faulty variant of WriteFail: the write is tried again after the error and
\* reaches the destination, with the first attempt still buffered
WriteFailRetried ==
    /\ with_pc = "body"
    /\ \E c \in DOMAIN handles, line \in WriteLines :
        /\ ~files[handles[c]].closed
        /\ SetRouterState([stream_write_flush(RouterState, handles[c], write_text(line))
                              EXCEPT !.files[handles[c]].buf = write_text(line)])
    /\ with_pc' = "raised"
    /\ raised' = raised \cup {"write"}
    /\ UNCHANGED <<config, wlog, exceptRouter>>

\* write(category, line) where flush() raises: the text stays in the
\* stream's buffer and the error leaves the with body
WriteFail ==
    /\ with_pc = "body"
    /\ \E c \in DOMAIN handles, line \in WriteLines :
        /\ ~files[handles[c]].closed
        /\ files' = [files EXCEPT ![handles[c]].buf = @ \o write_text(line)]
    /\ with_pc' = "raised"
    /\ raised' = raised \cup {"write"}
    /\ UNCHANGED <<config, handles, opened_files, disk, wlog, exceptRouter>>

\* write(category, line) on a router that holds no stream for the category
\* (not entered yet, or exited): self._handles[category] raises KeyError
WriteKeyError ==
    /\ with_pc \in {"before", "after", "after_again"}
    /\ \E c \in CategorySet : c \notin DOMAIN handles
    /\ raised' = raised \cup {IF with_pc = "before" THEN "key_unopened" ELSE "key_closed"}
    /\ UNCHANGED <<config, handles, opened_files, files, disk, with_pc, wlog, exceptRouter>>

\* __exit__, called when the with body is left (normally or on an error),
\* or once more by hand afterwards
Exit ==
    /\ with_pc \in {"body", "raised", "after"}
    /\ \E failing \in SUBSET { opened_files[i] : i \in 1..Len(opened_files) } :
        /\ SetRouterState(exit_router(RouterState, failing))
        /\ raised' = IF failing = {} THEN raised ELSE raised \cup {"close"}
    /\ with_pc' = IF with_pc = "after" THEN "after_again" ELSE "after"
    /\ UNCHANGED <<config, wlog, exceptRouter>>

RouterNext == Enter \/ EnterFail \/ Write \/ WriteFail \/ WriteKeyError \/ Exit

(***************************************************************************)
(* parser_logcat.py                                                        *)
(***************************************************************************)
CR == "\r"

Digits == {"0", "1", "2", "3", "4", "5", "6", "7", "8", "9"}

\* A character class: the characters listed, or (negated) all the others
Class(chars, negated) == [chars |-> chars, negated |-> negated]

InClass(cls, ch) == (ch \in cls.chars) # cls.negated

\* \d, \s, \S, [VDIWEFS], [^(] and [^:]
DigitClass == Class(Digits, FALSE)

SpaceClass == Class({" ", "\t", NL, CR, "\f"}, FALSE)

NonSpaceClass == Class({" ", "\t", NL, CR, "\f"}, TRUE)

LevelClass == Class({"V", "D", "I", "W", "E", "F", "S"}, FALSE)

NotParenClass == Class({"("}, TRUE)

NotColonClass == Class({":"}, TRUE)

IsDigit(ch) == InClass(DigitClass, ch)

IsSpace(ch) == InClass(SpaceClass, ch)

IsLevelChar(ch) == InClass(LevelClass, ch)

\* The index after the longest run of characters of class cls from i on
RunEnd(str, i, cls) ==
    LET stops == { j \in i..Len(str) : ~InClass(cls, str[j]) }
    IN  IF stops = {} THEN Len(str) + 1 ELSE CHOOSE j \in stops : \A k \in stops : j <= k

Lit(str, i, ch) == i >= 1 /\ i <= Len(str) /\ str[i] = ch

Dig(str, i) == i >= 1 /\ i <= Len(str) /\ IsDigit(str[i])

Rest(str, i) == SubSeq(str, i, Len(str))

\* (?P<message>.*)$ from index i: the rest of the line, which . matches
\* only if it holds no line break
DotStarToEnd(str, i) == \A j \in i..Len(str) : str[j] # NL

\* \d{2}:\d{2}:\d{2}\.\d{3} at index j, after white space from index i on:
\* the index after it, 0 if it does not match
ClockEnd(str, i, j) ==
    IF /\ j > i
       /\ Dig(str, j) /\ Dig(str, j + 1) /\ Lit(str, j + 2, ":")
       /\ Dig(str, j + 3) /\ Dig(str, j + 4) /\ Lit(str, j + 5, ":")
       /\ Dig(str, j + 6) /\ Dig(str, j + 7) /\ Lit(str, j + 8, ".")
       /\ Dig(str, j + 9) /\ Dig(str, j + 10) /\ Dig(str, j + 11)
    THEN j + 12
    ELSE 0

\* \d{2}-\d{2}\s+\d{2}:\d{2}:\d{2}\.\d{3} at index i: the index after it, 0 if
\* it does not match
TimestampEnd(str, i) ==
    IF ~(Dig(str, i) /\ Dig(str, i + 1) /\ Lit(str, i + 2, "-") /\ Dig(str, i + 3) /\ Dig(str, i + 4))
    THEN 0
    ELSE ClockEnd(str, i + 5, RunEnd(str, i + 5, SpaceClass))

\* The groups of a match; a group the pattern does not have is absent (None)
Groups(timestamp, pid, tid, level, tag, message) ==
    Some([timestamp |-> timestamp, pid |-> pid, tid |-> tid, level |-> level,
          tag |-> tag, message |-> message])

\* The end of THREADTIME_PATTERN, \s+(?P<tag>\S+)\s*:\s*(?P<message>.*)$, with
\* g1..g2 the run of non-space characters after the level and c the index
\* after the blanks that follow it.  The tag is the whole run if a colon is
\* at c, else the run up to its last colon.
ThreadtimeTag(str, t, p1, p2, q1, q2, l, g1, g2, c) ==
    LET colons == { k \in (g1 + 1)..(g2 - 1) : str[k] = ":" }
        whole == g2 > g1 /\ Lit(str, c, ":")
        last == IF whole THEN c ELSE CHOOSE k \in colons : \A k2 \in colons : k2 <= k
    IN  IF /\ g1 > l + 1
           /\ (whole \/ colons # {})
           /\ DotStarToEnd(str, RunEnd(str, last + 1, SpaceClass))
        THEN Groups(Some(SubSeq(str, 1, t - 1)), Some(SubSeq(str, p1, p2 - 1)),
                    Some(SubSeq(str, q1, q2 - 1)), Some(<<str[l]>>),
                    Some(SubSeq(str, g1, (IF whole THEN g2 ELSE last) - 1)),
                    Rest(str, RunEnd(str, last + 1, SpaceClass)))
        ELSE None

\* The middle of THREADTIME_PATTERN, \s+(?P<level>[VDIWEFS]), with p1..p2 the
\* pid, q1..q2 the tid and l the index after the blanks that follow the tid
ThreadtimeLevel(str, t, p1, p2, q1, q2, l) ==
    IF /\ p1 > t /\ p2 > p1 /\ q1 > p2 /\ q2 > q1 /\ l > q2
       /\ l <= Len(str) /\ IsLevelChar(str[l])
    THEN ThreadtimeTag(str, t, p1, p2, q1, q2, l,
                       RunEnd(str, l + 1, SpaceClass),
                       RunEnd(str, RunEnd(str, l + 1, SpaceClass), NonSpaceClass),
                       RunEnd(str, RunEnd(str, RunEnd(str, l + 1, SpaceClass), NonSpaceClass), SpaceClass))
    ELSE None

\* \s+(?P<pid>\d+)\s+(?P<tid>\d+) after a timestamp that ends before index t
ThreadtimeIds(str, t, p1, p2, q1) ==
    ThreadtimeLevel(str, t, p1, p2, q1, RunEnd(str, q1, DigitClass),
                    RunEnd(str, RunEnd(str, q1, DigitClass), SpaceClass))

\* THREADTIME_PATTERN
ThreadtimeAt(str, t, p1) ==
    ThreadtimeIds(str, t, p1, RunEnd(str, p1, DigitClass), RunEnd(str, RunEnd(str, p1, DigitClass), SpaceClass))

THREADTIME_PATTERN(str) ==
    IF TimestampEnd(str, 1) > 0
    THEN ThreadtimeAt(str, TimestampEnd(str, 1), RunEnd(str, TimestampEnd(str, 1), SpaceClass))
    ELSE None

\* (?P<tag>[^(]+)\(\s*(?P<pid>\d+)\):\s*(?P<message>.*)$ with the level at
\* index i, the bracket at p and the digits in d1..d2-1
BriefPid(str, i, timestamp, p, d1, d2) ==
    IF /\ i <= Len(str) /\ IsLevelChar(str[i])
       /\ Lit(str, i + 1, "/")
       /\ p > i + 2 /\ Lit(str, p, "(")
       /\ d2 > d1
       /\ Lit(str, d2, ")") /\ Lit(str, d2 + 1, ":")
       /\ DotStarToEnd(str, RunEnd(str, d2 + 2, SpaceClass))
    THEN Groups(timestamp, Some(SubSeq(str, d1, d2 - 1)), None, Some(<<str[i]>>),
                Some(SubSeq(str, i + 2, p - 1)), Rest(str, RunEnd(str, d2 + 2, SpaceClass)))
    ELSE None

BriefTag(str, i, timestamp, p, d1) == BriefPid(str, i, timestamp, p, d1, RunEnd(str, d1, DigitClass))

\* [VDIWEFS]/(?P<tag>[^(]+)\(\s*(?P<pid>\d+)\):\s*(?P<message>.*)$ from index i
BriefAt(str, i, timestamp) ==
    BriefTag(str, i, timestamp, RunEnd(str, i + 2, NotParenClass),
             RunEnd(str, RunEnd(str, i + 2, NotParenClass) + 1, SpaceClass))

BRIEF_PATTERN(str) == BriefAt(str, 1, None)

TimeAt(str, t, b) == IF t > 0 /\ b > t THEN BriefAt(str, b, Some(SubSeq(str, 1, t - 1))) ELSE None

TIME_PATTERN(str) == TimeAt(str, TimestampEnd(str, 1), RunEnd(str, TimestampEnd(str, 1), SpaceClass))

\* ^(?P<level>[VDIWEFS])/(?P<tag>[^:]+):\s*(?P<message>.*)$
TagAt(str, c) ==
    IF /\ Len(str) >= 1 /\ IsLevelChar(str[1])
       /\ Lit(str, 2, "/")
       /\ c > 3 /\ Lit(str, c, ":")
       /\ DotStarToEnd(str, RunEnd(str, c + 1, SpaceClass))
    THEN Groups(None, None, None, Some(<<str[1]>>), Some(SubSeq(str, 3, c - 1)),
                Rest(str, RunEnd(str, c + 1, SpaceClass)))
    ELSE None

TAG_PATTERN(str) == TagAt(str, RunEnd(str, 3, NotColonClass))

\* ^(?P<level>[VDIWEFS])\(\s*(?P<pid>\d+)\)\s*(?P<message>.*)$
ProcessAt(str, d1, d2) ==
    IF /\ Len(str) >= 1 /\ IsLevelChar(str[1])
       /\ Lit(str, 2, "(")
       /\ d2 > d1 /\ Lit(str, d2, ")")
       /\ DotStarToEnd(str, RunEnd(str, d2 + 1, SpaceClass))
    THEN Groups(None, Some(SubSeq(str, d1, d2 - 1)), None, Some(<<str[1]>>), None,
                Rest(str, RunEnd(str, d2 + 1, SpaceClass)))
    ELSE None

PROCESS_PATTERN(str) == ProcessAt(str, RunEnd(str, 3, SpaceClass), RunEnd(str, RunEnd(str, 3, SpaceClass), DigitClass))

\* PATTERNS, in the order they are tried: the groups of the first that matches
FirstMatch(m1, m2, m3, m4, m5) ==
    IF ~IsNone(m1) THEN m1
    ELSE IF ~IsNone(m2) THEN m2
    ELSE IF ~IsNone(m3) THEN m3
    ELSE IF ~IsNone(m4) THEN m4
    ELSE m5

\* Faulty variant: the bare-tag layout is tried before the brief layout
PATTERNS_tag_before_brief(str) ==
    FirstMatch(THREADTIME_PATTERN(str), TIME_PATTERN(str), TAG_PATTERN(str),
               BRIEF_PATTERN(str), PROCESS_PATTERN(str))

PATTERNS(str) ==
    FirstMatch(THREADTIME_PATTERN(str), TIME_PATTERN(str), BRIEF_PATTERN(str),
               TAG_PATTERN(str), PROCESS_PATTERN(str))

\* int() of a run of decimal digits
DigitValue(ch) ==
    CASE ch = "0" -> 0 [] ch = "1" -> 1 [] ch = "2" -> 2 [] ch = "3" -> 3 [] ch = "4" -> 4
      [] ch = "5" -> 5 [] ch = "6" -> 6 [] ch = "7" -> 7 [] ch = "8" -> 8 [] ch = "9" -> 9

RECURSIVE ToInt(_)
ToInt(ds) ==
    IF ds = <<>> THEN 0 ELSE 10 * ToInt(SubSeq(ds, 1, Len(ds) - 1)) + DigitValue(ds[Len(ds)])

\* str.strip(): leading and trailing white space removed
Strip(str) ==
    LET keep == { j \in 1..Len(str) : ~IsSpace(str[j]) }
    IN  IF keep = {} THEN <<>>
        ELSE SubSeq(str, CHOOSE j \in keep : \A k \in keep : j <= k,
                         CHOOSE j \in keep : \A k \in keep : k <= j)

\* Faulty variant: white space is stripped from both ends of the line
rstrip_newlines_strip_all(line) == Strip(line)

\* Faulty variant: one line terminator (\r\n, \n or \r) removed from the end
rstrip_newlines_one(line) ==
    IF Len(line) >= 2 /\ line[Len(line) - 1] = CR /\ line[Len(line)] = NL
    THEN SubSeq(line, 1, Len(line) - 2)
    ELSE IF Len(line) >= 1 /\ line[Len(line)] \in {NL, CR}
    THEN SubSeq(line, 1, Len(line) - 1)
    ELSE line

\* line.rstrip("\n\r"): every trailing line feed and carriage return removed
rstrip_newlines(line) ==
    LET keep == { j \in 1..Len(line) : line[j] \notin {NL, CR} }
    IN  IF keep = {} THEN <<>>
        ELSE SubSeq(line, 1, CHOOSE j \in keep : \A k \in keep : k <= j)

LogEntry(raw_line, timestamp, pid, tid, level, tag, message) ==
    [raw_line |-> raw_line, timestamp |-> timestamp, pid |-> pid, tid |-> tid,
     level |-> level, tag |-> tag, message |-> message]

\* LogLevel.from_str on the level group (one of the seven level letters)
LevelFromStr(value) == IF Strip(value)[1] \in LogLevel THEN Some(Strip(value)[1]) ELSE None

build_entry_from_match(raw_line, groups) ==
    LogEntry(raw_line,
             groups.timestamp,
             IF ~IsNone(groups.pid) /\ Val(groups.pid) # <<>> THEN Some(ToInt(Val(groups.pid))) ELSE None,
             IF ~IsNone(groups.tid) /\ Val(groups.tid) # <<>> THEN Some(ToInt(Val(groups.tid))) ELSE None,
             IF ~IsNone(groups.level) THEN LevelFromStr(Val(groups.level)) ELSE None,
             IF ~IsNone(groups.tag) /\ Val(groups.tag) # <<>> THEN Some(Strip(Val(groups.tag))) ELSE None,
             groups.message)

\* Faulty variant: a line of no layout becomes the message of its record
entry_of_match_as_message(stripped, match) ==
    IF ~IsNone(match) THEN build_entry_from_match(stripped, Val(match))
    ELSE LogEntry(stripped, None, None, None, None, None, stripped)

entry_of_match(stripped, match) ==
    IF ~IsNone(match) THEN build_entry_from_match(stripped, Val(match))
    ELSE LogEntry(stripped, None, None, None, None, None, <<>>)

match_patterns(stripped) == entry_of_match(stripped, PATTERNS(stripped))

parse_logcat_line(line) == match_patterns(rstrip_newlines(line))

\* The index of the first line feed of text, 0 if it has none
FirstNL(text) ==
    LET at == { j \in 1..Len(text) : text[j] = NL }
    IN  IF at = {} THEN 0 ELSE CHOOSE j \in at : \A k \in at : j <= k

\* The while loop of feed, consumed to its end: st holds the buffer and the
\* records yielded so far
RECURSIVE feed_loop(_)
feed_loop(st) ==
    IF FirstNL(st.buffer) = 0 THEN st
    ELSE feed_loop([buffer |-> SubSeq(st.buffer, FirstNL(st.buffer) + 1, Len(st.buffer)),
                    records |-> IF FirstNL(st.buffer) > 1
                                THEN Append(st.records,
                                            parse_logcat_line(SubSeq(st.buffer, 1, FirstNL(st.buffer) - 1)))
                                ELSE st.records])

\* Faulty variant: the text buffered by earlier calls is forgotten
feed_without_buffer(buf, data) == feed_loop([buffer |-> data, records |-> <<>>])

\* LogcatStreamParser.feed(data), iterated to its end, on a parser whose
\* buffer holds buf: the new buffer and the records yielded
feed(buf, data) == feed_loop([buffer |-> buf \o data, records |-> <<>>])

\* Faulty variant: the buffer is not emptied
flush_keeps_buffer(buf) ==
    [buffer |-> buf,
     record |-> IF Strip(buf) # <<>> THEN Some(parse_logcat_line(buf)) ELSE None]

\* LogcatStreamParser.flush() on a parser whose buffer holds buf: the new
\* buffer and the record returned, if any
flush(buf) ==
    [buffer |-> <<>>,
     record |-> IF Strip(buf) # <<>> THEN Some(parse_logcat_line(buf)) ELSE None]

(***************************************************************************)
(* Inputs of the classifier                                                *)
(***************************************************************************)
RuleUniverse ==
    { IgnoreRuleTag(TagA), IgnoreRuleLevel("D"), IgnoreRuleTagLevel(TagA, "D"),
      IgnoreRulePattern(<<"x">>), IgnoreRuleLinePattern(<<"y">>) }

\* Scope files: the sample's shape with one tag, and a file of no table
ScopeContents == { [expected_tags |-> <<TagA>>], [app |-> <<>>] }

ScopeArgs ==
    { None, Some(ScopeConfig({})), Some(ScopeConfig({TagA, EmptyStr})), Some(ScopeConfig({TagB})) }
        \cup { Some(parse_scope_content(c)) : c \in ScopeContents }

EngineEntries ==
    [ raw_line : {<<"y">>, <<"z">>},
      timestamp : {None},
      pid : {None},
      tid : {None},
      level : {None, Some("D"), Some("I")},
      tag : {None, Some(EmptyStr), Some(TagA), Some(TagB)},
      message : {<<>>, <<"z", "x">>} ]

NoCall == [op |-> "none"]

(***************************************************************************)
(* Components at rest                                                      *)
(***************************************************************************)
\* No engine built, no call made
EngineIdle ==
    /\ rules = <<>>
    /\ scope_arg = None
    /\ scope_config = None
    /\ engine_pc = "building"
    /\ entry_in = LogEntry(<<>>, None, None, None, None, None, <<>>)
    /\ call = NoCall

\* A router with the default configuration, not entered
RouterIdle ==
    /\ config = from_options(None, None, None)
    /\ RouterFields

\* No parser call made, no stream parser in use
ParserIdle ==
    /\ line_in = <<>>
    /\ parse_result = None
    /\ stream_rest = <<>>
    /\ buffer = <<>>
    /\ records = <<>>
    /\ stream_log = [fed |-> <<>>, longest |-> 0]
    /\ parser_pc = "idle"

\* No hook registered, nothing recorded
FilterIdle ==
    /\ pre_filters = <<>>
    /\ post_filters = <<>>
    /\ stats = NewFilterStats
    /\ recorded = <<>>

\* The subprocess has written all it writes; its standard error pipe is empty
PipesIdle ==
    /\ producer = <<>>
    /\ stderr_pipe = 0

\* monitor() not called
MonitorIdle ==
    /\ raw = FALSE
    /\ color = FALSE
    /\ isatty = FALSE
    /\ proc = "none"
    /\ proc_stdout = <<>>
    /\ mon_pc = "idle"
    /\ mlog = <<>>

(***************************************************************************)
(* Classifier actions                                                      *)
(***************************************************************************)
EngineInit ==
    /\ rules = <<>>
    /\ scope_arg \in ScopeArgs
    /\ scope_config = None
    /\ engine_pc = "building"
    /\ entry_in \in EngineEntries
    /\ call = NoCall
    /\ RouterIdle
    /\ MonitorIdle
    /\ FilterIdle
    /\ PipesIdle
    /\ ParserIdle

\* IgnoreConfig.add_rule
AddRule ==
    /\ engine_pc = "building"
    /\ Len(rules) < MaxRules
    /\ \E r \in RuleUniverse : rules' = Append(rules, r)
    /\ UNCHANGED <<scope_arg, scope_config, engine_pc, entry_in, call, exceptEngine>>

\* FilterEngine.__init__: scope_config or ScopeConfig()
CreateEngine ==
    /\ engine_pc = "building"
    /\ scope_config' = IF IsNone(scope_arg) THEN Some(ScopeConfig({})) ELSE scope_arg
    /\ engine_pc' = "ready"
    /\ UNCHANGED <<rules, scope_arg, entry_in, call, exceptEngine>>

\* is_event_in_scope called directly, with the argument as given (maybe None)
CallIsEventInScope ==
    /\ call' = [op |-> "is_event_in_scope", result |-> is_event_in_scope(entry_in, scope_arg)]
    /\ UNCHANGED <<rules, scope_arg, scope_config, engine_pc, entry_in, exceptEngine>>

\* FilterEngine.filter_entry
FilterEntry ==
    /\ engine_pc = "ready"
    /\ call' = [op |-> "filter_entry", result |-> filter_entry(rules, scope_config, entry_in)]
    /\ UNCHANGED <<rules, scope_arg, scope_config, engine_pc, entry_in, exceptEngine>>

\* FilterEngine.route_entry
RouteEntry ==
    /\ engine_pc = "ready"
    /\ call' = [op |-> "route_entry", result |-> route_entry(rules, scope_config, entry_in)]
    /\ UNCHANGED <<rules, scope_arg, scope_config, engine_pc, entry_in, exceptEngine>>

EngineNext == AddRule \/ CreateEngine \/ CallIsEventInScope \/ FilterEntry \/ RouteEntry

SpecEngine == EngineInit /\ [][EngineNext]_vars

\* The router alone, with the classifier idle
SpecRouterInit ==
    /\ EngineIdle
    /\ RouterInit
    /\ MonitorIdle
    /\ FilterIdle
    /\ PipesIdle
    /\ ParserIdle

SpecRouter == SpecRouterInit /\ [][RouterNext]_vars

(***************************************************************************)
(* cli.py: monitor                                                         *)
(***************************************************************************)
\* LEVEL_COLORS
LEVEL_COLORS ==
    [l \in LogLevel |->
        CASE l = "V" -> "dim" [] l = "D" -> "blue" [] l = "I" -> "green" [] l = "W" -> "yellow"
          [] l = "E" -> "red" [] l = "F" -> "red bold" [] l = "S" -> "dim"]

\* What console.print puts on standard output for _print_entry: the raw line
\* and a line break; a styled text is wrapped in the style's escape codes when
\* the console is a terminal (each escape code is one element of the text).
print_entry(entry, use_color) ==
    IF use_color /\ ~IsNone(entry.level) /\ Val(entry.level) \in DOMAIN LEVEL_COLORS /\ isatty
    THEN <<LEVEL_COLORS[Val(entry.level)]>> \o entry.raw_line \o <<"reset", NL>>
    ELSE entry.raw_line \o <<NL>>

\* _is_stdout_stream
is_stdout_stream(category, cfg) == is_stdout(cfg[category])

\* The body of the routing loop for one line: parse, route, then print to the
\* console (colour on and the category goes to stdout) or write to the router
RouteLine(st, line) ==
    LET entry == parse_logcat_line(line)
        result == route_entry(rules, scope_config, entry)
    IN  IF color /\ is_stdout_stream(result.category, st.config)
        THEN [st EXCEPT !.disk["stdout"] = @ \o print_entry(entry, TRUE)]
        ELSE stream_write_flush(st, st.handles[result.category], write_text(entry.raw_line))

\* For the history: the line read, its category, the path it took and the
\* text handed to the console or to the router's stream
RouteVia(line) ==
    LET entry == parse_logcat_line(line)
        result == route_entry(rules, scope_config, entry)
        console == color /\ is_stdout_stream(result.category, config)
    IN  [line |-> line, category |-> result.category,
         via |-> IF console THEN "console" ELSE "router",
         text |-> IF console THEN print_entry(entry, TRUE) ELSE write_text(entry.raw_line)]

(***************************************************************************)
(* Inputs of monitor                                                       *)
(***************************************************************************)
\* Lines as the text-mode pipe delivers them: no line break inside, one at
\* the end (only the last line before end-of-stream may lack it)
LineInScope == <<"D", "/", "A", ":", " ", "x", NL>>

LineIgnored == <<"I", "/", "B", "(", "1", ")", ":", " ", "y", NL>>

LineNoise == <<" ", "z", "z", " ", NL>>

LineCut == <<"W", "/", "A", ":", "y">>

ProcLines == {LineInScope, LineIgnored, LineNoise, LineCut}

RECURSIVE SeqsUpTo(_, _)
SeqsUpTo(S, n) ==
    IF n = 0 THEN {<<>>}
    ELSE LET shorter == SeqsUpTo(S, n - 1)
         IN  shorter \cup { Append(q, x) : q \in shorter, x \in S }

ProcOutputs ==
    { q \in SeqsUpTo(ProcLines, MaxLines) :
        \A i \in 1..Len(q) : ~endswith_newline(q[i]) => i = Len(q) }

\* The rules and scope loaded from .logcatignore and .logcatscope; the scope
\* is what parse_scope_file makes of a file that lists the tag A
LoadedRules == <<IgnoreRuleTag(TagB), IgnoreRulePattern(<<"q">>)>>

LoadedScope == Some(parse_scope_content([expected_tags |-> <<TagA>>]))

MonitorInScopeOptions == {None, Some("x.log")}

MonitorIgnoredOptions == {None, Some("y.log"), Some("stderr")}

MonitorNoiseOptions == {None, Some("x.log")}

Interrupted == <<NL, "Interrupted.", NL>>

(***************************************************************************)
(* monitor actions                                                         *)
(***************************************************************************)
\* The options monitor() is called with; the engine is built from the loaded
\* configuration, or from nothing in raw mode
MonitorStart ==
    /\ raw \in BOOLEAN
    /\ color \in BOOLEAN
    /\ isatty \in BOOLEAN
    /\ color = FALSE => isatty = FALSE
    /\ rules = IF raw THEN <<>> ELSE LoadedRules
    /\ scope_arg = IF raw THEN None ELSE LoadedScope
    /\ scope_config = IF raw THEN Some(ScopeConfig({})) ELSE LoadedScope
    /\ engine_pc = "ready"
    /\ entry_in = LogEntry(<<>>, None, None, None, None, None, <<>>)
    /\ call = NoCall
    /\ \E i \in MonitorInScopeOptions, g \in MonitorIgnoredOptions, n \in MonitorNoiseOptions :
            /\ raw => (i = None /\ g = None /\ n = None)
            /\ config = from_options(i, g, n)
    /\ RouterFields
    /\ proc = "none"
    /\ mon_pc = "start"
    /\ mlog = <<>>
    /\ ParserIdle
    /\ FilterIdle

\* monitor() called, with a subprocess that has written all its lines
Init ==
    /\ MonitorStart
    /\ proc_stdout \in ProcOutputs
    /\ PipesIdle

\* subprocess.Popen succeeds
Popen ==
    /\ mon_pc = "start"
    /\ proc' = "running"
    /\ mon_pc' = "try"
    /\ UNCHANGED <<pipeVars, filterVars, parserVars, engineVars, routerVars, raw, color, isatty, proc_stdout, mlog>>

\* subprocess.Popen raises FileNotFoundError: typer.Exit(1)
PopenFail ==
    /\ mon_pc = "start"
    /\ mon_pc' = "exit1"
    /\ UNCHANGED <<pipeVars, filterVars, parserVars, engineVars, routerVars, raw, color, isatty, proc, proc_stdout, mlog>>

\* with StreamRouter(routing_config) as router: __enter__ succeeds
\* (raw mode has no router and goes straight to its loop)
EnterRouter ==
    /\ mon_pc = "try"
    /\ IF raw THEN UNCHANGED <<handles, opened_files, files, disk, with_pc>>
       ELSE SetRouterState(EnterUpTo(RouterState, 3)) /\ with_pc' = "body"
    /\ mon_pc' = "loop"
    /\ UNCHANGED <<pipeVars, filterVars, parserVars, engineVars, config, wlog, raised, raw, color, isatty, proc, proc_stdout, mlog>>

\* Faulty variant of EnterRouterFail: the destinations are opened lazily, so
\* the first line is read and recorded before the open raises
EnterRouterFailLate ==
    /\ mon_pc = "try"
    /\ ~raw
    /\ proc_stdout # <<>>
    /\ \E c \in CategorySet : is_file(config[c])
    /\ mlog' = Append(mlog, RouteVia(Head(proc_stdout)))
    /\ proc_stdout' = Tail(proc_stdout)
    /\ with_pc' = "enter_failed"
    /\ raised' = raised \cup {"open"}
    /\ mon_pc' = "finally"
    /\ UNCHANGED <<pipeVars, filterVars, parserVars, engineVars, config, handles, opened_files, files, disk, wlog, raw, color, isatty, proc>>

\* __enter__ raises on the open for the k-th category: the error is not a
\* KeyboardInterrupt, so it goes through the finally clause and out
EnterRouterFail ==
    /\ mon_pc = "try"
    /\ ~raw
    /\ \E k \in 1..3 :
        /\ is_file(config[Categories[k]])
        /\ SetRouterState(EnterUpTo(RouterState, k - 1))
    /\ with_pc' = "enter_failed"
    /\ raised' = raised \cup {"open"}
    /\ mon_pc' = "finally"
    /\ UNCHANGED <<pipeVars, filterVars, parserVars, engineVars, config, wlog, raw, color, isatty, proc, proc_stdout, mlog>>

\* Faulty variant of Step: the lines are batched and the newest handled first
StepNewestFirst ==
    /\ mon_pc = "loop"
    /\ proc_stdout # <<>>
    /\ LET line == proc_stdout[Len(proc_stdout)]
       IN  IF raw
           THEN /\ disk' = [disk EXCEPT !["stdout"] = @ \o print_entry(parse_logcat_line(line), color)]
                /\ mlog' = Append(mlog, [line |-> line, category |-> "RAW", via |-> "console",
                                          text |-> print_entry(parse_logcat_line(line), color)])
                /\ UNCHANGED <<handles, opened_files, files>>
           ELSE /\ SetRouterState(RouteLine(RouterState, line))
                /\ mlog' = Append(mlog, RouteVia(line))
    /\ proc_stdout' = SubSeq(proc_stdout, 1, Len(proc_stdout) - 1)
    /\ UNCHANGED <<pipeVars, filterVars, parserVars, engineVars, config, with_pc, wlog, raised, raw, color, isatty, proc, mon_pc>>

\* One turn of the loop over process.stdout
Step ==
    /\ mon_pc = "loop"
    /\ proc_stdout # <<>>
    /\ LET line == Head(proc_stdout)
       IN  IF raw
           THEN /\ disk' = [disk EXCEPT !["stdout"] = @ \o print_entry(parse_logcat_line(line), color)]
                /\ mlog' = Append(mlog, [line |-> line, category |-> "RAW", via |-> "console",
                                          text |-> print_entry(parse_logcat_line(line), color)])
                /\ UNCHANGED <<handles, opened_files, files>>
           ELSE /\ SetRouterState(RouteLine(RouterState, line))
                /\ mlog' = Append(mlog, RouteVia(line))
    /\ proc_stdout' = Tail(proc_stdout)
    /\ UNCHANGED <<pipeVars, filterVars, parserVars, engineVars, config, with_pc, wlog, raised, raw, color, isatty, proc, mon_pc>>

\* A turn of the loop in which router.write raises on flush(): the text stays
\* in the stream's buffer, __exit__ runs, the error goes through the finally
\* clause and out
StepWriteFail ==
    /\ mon_pc = "loop"
    /\ ~raw
    /\ proc_stdout # <<>>
    /\ LET line == Head(proc_stdout)
           via == RouteVia(line)
           h == handles[via.category]
       IN  /\ via.via = "router"
           /\ \E failing \in SUBSET { opened_files[i] : i \in 1..Len(opened_files) } :
                SetRouterState(exit_router(
                    [RouterState EXCEPT !.files[h].buf = @ \o write_text(parse_logcat_line(line).raw_line)],
                    failing))
    /\ proc_stdout' = Tail(proc_stdout)
    /\ with_pc' = "after"
    /\ raised' = raised \cup {"write"}
    /\ mon_pc' = "finally"
    /\ UNCHANGED <<pipeVars, filterVars, parserVars, engineVars, config, wlog, raw, color, isatty, proc, mlog>>

\* Faulty variant of EndOfStream: the end of the subprocess ends the loop
\* at once, whatever lines it has delivered
EndOfStreamEarly ==
    /\ mon_pc = "loop"
    /\ IF raw THEN UNCHANGED <<handles, opened_files, files, disk, with_pc, raised>>
       ELSE /\ \E failing \in SUBSET { opened_files[i] : i \in 1..Len(opened_files) } :
                /\ SetRouterState(exit_router(RouterState, failing))
                /\ raised' = IF failing = {} THEN raised ELSE raised \cup {"close"}
            /\ with_pc' = "after"
    /\ mon_pc' = "finally"
    /\ UNCHANGED <<pipeVars, filterVars, parserVars, engineVars, config, wlog, raw, color, isatty, proc, proc_stdout, mlog>>

\* End of stream: the loop ends, the with block is left (__exit__)
EndOfStream ==
    /\ mon_pc = "loop"
    /\ proc_stdout = <<>>
    /\ IF raw THEN UNCHANGED <<handles, opened_files, files, disk, with_pc, raised>>
       ELSE /\ \E failing \in SUBSET { opened_files[i] : i \in 1..Len(opened_files) } :
                /\ SetRouterState(exit_router(RouterState, failing))
                /\ raised' = IF failing = {} THEN raised ELSE raised \cup {"close"}
            /\ with_pc' = "after"
    /\ mon_pc' = "finally"
    /\ UNCHANGED <<pipeVars, filterVars, parserVars, engineVars, config, wlog, raw, color, isatty, proc, proc_stdout, mlog>>

\* KeyboardInterrupt inside the try block: __exit__ if the with block was
\* entered, then the except clause prints its notice on standard error
KeyboardInterrupt ==
    /\ mon_pc \in {"try", "loop"}
    /\ LET st == IF mon_pc = "loop" /\ ~raw THEN exit_router(RouterState, {}) ELSE RouterState
       IN  SetRouterState([st EXCEPT !.disk["stderr"] = @ \o Interrupted])
    /\ with_pc' = IF mon_pc = "loop" /\ ~raw THEN "after" ELSE with_pc
    /\ raised' = raised \cup {"interrupt"}
    /\ mon_pc' = "finally"
    /\ UNCHANGED <<pipeVars, filterVars, parserVars, engineVars, config, wlog, raw, color, isatty, proc, proc_stdout, mlog>>

\* What stream.write has put in the stream's buffer when the interrupt
\* arrives in router.write: nothing yet (k = 1), the line (k = 2), the line
\* and its line break (k = 3)
PartialWrite(raw_line, k) ==
    IF k = 1 THEN <<>> ELSE IF k = 2 THEN raw_line ELSE write_text(raw_line)

\* KeyboardInterrupt inside a turn of the loop, after the line was read: before
\* anything is written (k = 1) or, on the router.write path, between
\* statements of write (k = 2, 3).  __exit__ runs (closing a stream flushes
\* its buffer), then the except clause prints its notice on standard error.
KeyboardInterruptInStep ==
    /\ mon_pc = "loop"
    /\ proc_stdout # <<>>
    /\ \E k \in 1..3 :
        LET line == Head(proc_stdout)
            via == RouteVia(line)
            entry == parse_logcat_line(line)
            inwrite == IF ~raw /\ via.via = "router"
                       THEN [RouterState EXCEPT !.files[handles[via.category]].buf =
                                                    @ \o PartialWrite(entry.raw_line, k)]
                       ELSE RouterState
            exited == IF raw THEN inwrite ELSE exit_router(inwrite, {})
        IN  /\ (raw \/ via.via = "console") => k = 1
            /\ SetRouterState(stream_write_flush(exited, "stderr", Interrupted))
    /\ proc_stdout' = Tail(proc_stdout)
    /\ with_pc' = IF raw THEN with_pc ELSE "after"
    /\ raised' = raised \cup {"interrupt", "cut"}
    /\ mon_pc' = "finally"
    /\ UNCHANGED <<pipeVars, filterVars, parserVars, engineVars, config, wlog, raw, color, isatty, proc, mlog>>

\* Faulty variant of Finally: the subprocess is terminated but not waited for
FinallyNoWait ==
    /\ mon_pc = "finally"
    /\ proc' = "terminated"
    /\ mon_pc' = "done"
    /\ UNCHANGED <<pipeVars, filterVars, parserVars, engineVars, routerVars, raw, color, isatty, proc_stdout, mlog>>

\* finally: process.terminate(); process.wait()
Finally ==
    /\ mon_pc = "finally"
    /\ proc' = "waited"
    /\ mon_pc' = "done"
    /\ UNCHANGED <<pipeVars, filterVars, parserVars, engineVars, routerVars, raw, color, isatty, proc_stdout, mlog>>

Next ==
    \/ Popen \/ PopenFail \/ EnterRouter \/ EnterRouterFail
    \/ Step \/ StepWriteFail \/ EndOfStream \/ KeyboardInterrupt \/ KeyboardInterruptInStep
    \/ Finally

Spec == Init /\ [][Next]_vars

\* monitor() runs on: a statement that can run does run.  Popen returns or
\* raises, the finally clause runs (terminate() and wait() return), __enter__
\* returns or raises, and the read of the next line returns with a line or
\* with the end of the stream.  The last two are weak fairness of the
\* actions named, written out with the condition under which they can run.
LiveSpec ==
    /\ Spec
    /\ WF_vars(Popen \/ PopenFail)
    /\ WF_vars(Finally)
    /\ ([]<>(mon_pc # "try") \/ []<><<EnterRouter \/ EnterRouterFail>>_vars)
    /\ ([]<>(mon_pc # "loop") \/ []<><<Step \/ EndOfStream>>_vars)

(***************************************************************************)
(* Inputs of the parser                                                    *)
(***************************************************************************)
MaxText == 4

\* One line of each layout, lines of no layout, and a line with a line feed
\* inside
BodyThreadtime ==
    <<"0", "1", "-", "0", "2", " ", "0", "3", ":", "0", "4", ":", "0", "5", ".", "6", "7", "8",
      " ", " ", "1", "2", " ", "3", "4", " ", "D", " ", "A", ":", " ", "x">>

BodyTime ==
    <<"0", "1", "-", "0", "2", " ", "0", "3", ":", "0", "4", ":", "0", "5", ".", "6", "7", "8",
      " ", "D", "/", "A", "(", " ", "1", "2", ")", ":", " ", "x">>

BodyBrief == <<"D", "/", "A", "(", "1", "2", ")", ":", " ", "x">>

BodyTag == <<"D", "/", "A", ":", " ", "x">>

BodyProcess == <<"D", "(", "1", "2", ")", " ", "x">>

ParseBodies ==
    { BodyThreadtime, BodyTime, BodyBrief, BodyTag, BodyProcess,
      <<>>, <<"n", "o">>, <<" ">> \o BodyTag, <<"X", "/", "A", ":", " ", "x">>,
      BodyTag \o <<NL, "y">>, BodyTag \o <<" ">> }

\* What a line can end with
LineEnds == { <<>>, <<NL>>, <<CR, NL>>, <<CR>>, <<NL, NL>>, <<NL, CR>> }

ParseLines == { body \o ending : body \in ParseBodies, ending \in LineEnds }

\* The texts fed to the stream parser: every text of up to MaxText
\* characters over a small alphabet, and two texts with lines of a layout
StreamTexts ==
    SeqsUpTo({"a", " ", NL, CR}, MaxText)
        \cup { BodyTag \o <<NL>>, BodyTag \o <<CR, NL>> \o BodyProcess }

(***************************************************************************)
(* Parser actions                                                          *)
(***************************************************************************)
\* Either a line to parse or a text to feed
ParserInit ==
    /\ \/ line_in \in ParseLines /\ stream_rest = <<>>
       \/ line_in = <<>> /\ stream_rest \in StreamTexts
    /\ parse_result = None
    /\ buffer = <<>>
    /\ records = <<>>
    /\ stream_log = [fed |-> <<>>, longest |-> 0]
    /\ parser_pc = "ready"

\* entry = parse_logcat_line(line)
ParseLine ==
    /\ parser_pc = "ready"
    /\ parse_result = None
    /\ parse_result' = Some(parse_logcat_line(line_in))
    /\ UNCHANGED <<line_in, stream_rest, buffer, records, stream_log, parser_pc, exceptParser>>

\* list(parser.feed(data)) with data the next n characters of the text
Feed ==
    /\ parser_pc = "ready"
    /\ \E n \in 1..Len(stream_rest) :
        LET data == SubSeq(stream_rest, 1, n)
            fed == feed(buffer, data)
        IN  /\ buffer' = fed.buffer
            /\ records' = records \o fed.records
            /\ stream_rest' = SubSeq(stream_rest, n + 1, Len(stream_rest))
            /\ stream_log' = [fed |-> stream_log.fed \o data,
                              longest |-> IF n > stream_log.longest THEN n ELSE stream_log.longest]
    /\ UNCHANGED <<line_in, parse_result, parser_pc, exceptParser>>

\* parser.flush(), once or once more
Flush ==
    /\ parser_pc \in {"ready", "flushed"}
    /\ line_in = <<>>
    /\ buffer' = flush(buffer).buffer
    /\ records' = IF IsNone(flush(buffer).record) THEN records
                  ELSE Append(records, Val(flush(buffer).record))
    /\ parser_pc' = IF parser_pc = "ready" THEN "flushed" ELSE "flushed_again"
    /\ UNCHANGED <<line_in, parse_result, stream_rest, stream_log, exceptParser>>

ParserNext == ParseLine \/ Feed \/ Flush

SpecParserInit ==
    /\ EngineIdle
    /\ RouterIdle
    /\ MonitorIdle
    /\ FilterIdle
    /\ PipesIdle
    /\ ParserInit

SpecParser == SpecParserInit /\ [][ParserNext]_vars

(***************************************************************************)
(* cli.py: monitor and the pipes of its subprocess                         *)
(***************************************************************************)
\* What the subprocess writes: lines on its standard output and texts on
\* its standard error, in any order
ToStdout(line) == [fd |-> "stdout", text |-> line]

ToStderr == [fd |-> "stderr", text |-> <<"e", NL>>]

ProducerScripts == SeqsUpTo({ToStdout(LineIgnored), ToStderr}, MaxScript)

\* monitor() called; the subprocess, once started, has all its writes to make
PipesInit ==
    /\ MonitorStart
    /\ proc_stdout = <<>>
    /\ producer \in ProducerScripts
    /\ stderr_pipe = 0

\* The subprocess writes a line to its standard output, the pipe that
\* Popen(stdout=PIPE) made: the write waits while the pipe is full
WriteStdout ==
    /\ proc = "running"
    /\ producer # <<>>
    /\ Head(producer).fd = "stdout"
    /\ Len(proc_stdout) < PipeCapacity
    /\ proc_stdout' = Append(proc_stdout, Head(producer).text)
    /\ producer' = Tail(producer)
    /\ UNCHANGED <<stderr_pipe, filterVars, parserVars, engineVars, routerVars, raw, color, isatty, proc,
                   mon_pc, mlog>>

\* The subprocess writes to its standard error, the pipe that
\* Popen(stderr=PIPE) made and that monitor() never reads: the write waits
\* while the pipe is full
WriteStderr ==
    /\ proc = "running"
    /\ producer # <<>>
    /\ Head(producer).fd = "stderr"
    /\ stderr_pipe < PipeCapacity
    /\ stderr_pipe' = stderr_pipe + 1
    /\ producer' = Tail(producer)
    /\ UNCHANGED <<filterVars, parserVars, engineVars, routerVars, raw, color, isatty, proc,
                   proc_stdout, mon_pc, mlog>>

\* End of stream: the subprocess has made all its writes and has exited
PipeEndOfStream == producer = <<>> /\ EndOfStream

PipesNext ==
    \/ Popen \/ PopenFail \/ EnterRouter \/ EnterRouterFail
    \/ WriteStdout \/ WriteStderr
    \/ Step \/ StepWriteFail \/ PipeEndOfStream \/ KeyboardInterrupt \/ KeyboardInterruptInStep
    \/ Finally

SpecPipes == PipesInit /\ [][PipesNext]_vars

(***************************************************************************)
(* filter_engine.py: hooks                                                 *)
(***************************************************************************)
\* The rule lists and records of the engines with hooks
HookRuleLists == { <<>>, <<IgnoreRuleTag(TagA)>>, <<IgnoreRuleLevel("I"), IgnoreRuleTag(TagB)>> }

HookEntries ==
    { LogEntry(<<"y">>, None, None, None, Some(l), Some(t), <<"z">>) : l \in {"D", "I"}, t \in {TagA, TagB} }

\* engine = FilterEngine(ignore_config=config): no hook registered
HooksInit ==
    /\ rules \in HookRuleLists
    /\ scope_arg = None
    /\ scope_config = Some(ScopeConfig({}))
    /\ engine_pc = "ready"
    /\ entry_in \in HookEntries
    /\ call = NoCall
    /\ FilterIdle
    /\ PipesIdle
    /\ RouterIdle
    /\ MonitorIdle
    /\ ParserIdle

\* FilterEngine.add_pre_filter
AddPreFilter ==
    /\ engine_pc = "ready"
    /\ Len(pre_filters) < MaxHooks
    /\ \E hook \in PreHooks : pre_filters' = Append(pre_filters, hook)
    /\ UNCHANGED <<post_filters, stats, recorded, engineVars, routerVars, monitorVars, pipeVars, parserVars>>

\* FilterEngine.add_post_filter
AddPostFilter ==
    /\ engine_pc = "ready"
    /\ Len(post_filters) < MaxHooks
    /\ \E hook \in PostHooks : post_filters' = Append(post_filters, hook)
    /\ UNCHANGED <<pre_filters, stats, recorded, engineVars, routerVars, monitorVars, pipeVars, parserVars>>

\* FilterEngine.filter_entry on an engine with hooks
FilterEntryHooks ==
    /\ engine_pc = "ready"
    /\ \E entry \in HookEntries :
        /\ entry_in' = entry
        /\ call' = [op |-> "filter_entry",
                    result |-> filter_entry_hooks(pre_filters, post_filters, rules,
                                                  scope_config, entry).result,
                    trace |-> filter_entry_hooks(pre_filters, post_filters, rules,
                                                 scope_config, entry).trace]
    /\ UNCHANGED <<rules, scope_arg, scope_config, engine_pc, filterVars, routerVars, monitorVars, pipeVars,
                   parserVars>>

HooksNext == AddPreFilter \/ AddPostFilter \/ FilterEntryHooks

SpecHooks == HooksInit /\ [][HooksNext]_vars

(***************************************************************************)
(* filter_engine.py: FilterStats                                           *)
(***************************************************************************)
\* The results handed to record: displayed or not, with or without a rule
StatResults ==
    { FilterResult(LogEntry(<<"y">>, None, None, None, Some("D"), Some(TagA), <<"z">>), d, r) :
        d \in BOOLEAN,
        r \in {None, Some(IgnoreRuleTag(TagA)), Some(IgnoreRuleTag(TagB)), Some(IgnoreRuleLevel("D"))} }

\* stats = FilterStats()
StatsInit ==
    /\ EngineIdle
    /\ FilterIdle
    /\ PipesIdle
    /\ RouterIdle
    /\ MonitorIdle
    /\ ParserIdle

\* stats.record(result)
Record ==
    /\ Len(recorded) < MaxRecords
    /\ \E result \in StatResults :
        /\ stats' = record(stats, result)
        /\ recorded' = Append(recorded, result)
    /\ UNCHANGED <<pre_filters, post_filters, engineVars, routerVars, monitorVars, pipeVars, parserVars>>

SpecStats == StatsInit /\ [][Record]_vars

(***************************************************************************)
(* Properties of the classifier                                            *)
(***************************************************************************)
\* The entry's tag is present, non-empty and a member of the engine's tag set
TagInScope ==
    /\ engine_pc = "ready"
    /\ ~IsNone(entry_in.tag)
    /\ Val(entry_in.tag) # EmptyStr
    /\ Val(entry_in.tag) \in Val(scope_config).tags

MatchingIdx == { i \in 1..Len(rules) : Matches(rules[i], entry_in) }

PatternIdx == { i \in 1..Len(rules) : rules[i].kind \in {"PATTERN", "LINEPATTERN"} }

MinOf(S) == CHOOSE i \in S : \A j \in S : i <= j

IsFilterCall == call.op = "filter_entry"

IsRouteCall == call.op = "route_entry"

\* C1: route_entry on a record whose tag is a non-empty member of the scope's
\* tag set returns IN_SCOPE with no matched rule, whatever rules match it.
C1_RoutingPriority ==
    (IsRouteCall /\ TagInScope) =>
        /\ call.result.category = "IN_SCOPE"
        /\ IsNone(call.result.matched_rule)

\* C1 witness: an in-scope record that a pattern rule matches was routed
C1_Witness ==
    /\ IsRouteCall /\ TagInScope
    /\ MatchingIdx \cap PatternIdx # {}
    /\ MatchingIdx \ PatternIdx # {}
    /\ call.result.category = "IN_SCOPE"

\* C2: in filter mode an in-scope record is never hidden by a TAG, LEVEL or
\* TAGLEVEL rule; with only such rules it is displayed with no matched rule;
\* a record that is not in scope is hidden by such a rule that matches it.
C2_ScopeExemption ==
    /\ (IsFilterCall /\ TagInScope /\ ~IsNone(call.result.matched_rule)) =>
            Val(call.result.matched_rule).kind \in {"PATTERN", "LINEPATTERN"}
    /\ (IsFilterCall /\ TagInScope /\ PatternIdx = {}) =>
            (call.result.should_display /\ IsNone(call.result.matched_rule))
    /\ (IsFilterCall /\ ~TagInScope /\ MatchingIdx \ PatternIdx # {}) =>
            (~call.result.should_display /\ ~IsNone(call.result.matched_rule))

\* C2 witness: an in-scope record matched only by exempt rules was displayed
C2_Witness ==
    /\ IsFilterCall /\ TagInScope
    /\ PatternIdx = {}
    /\ Cardinality(MatchingIdx) >= 2
    /\ call.result.should_display

\* C2 witness (second half): the same kind of rule hid an out-of-scope record
C2_WitnessOutOfScope ==
    /\ IsFilterCall /\ ~TagInScope
    /\ PatternIdx = {} /\ MatchingIdx # {}
    /\ ~call.result.should_display

\* C3: in filter mode a pattern rule that matches an in-scope record hides
\* it and is the matched rule, whatever exempt rules precede it.
C3_PatternBypassesExemption ==
    (IsFilterCall /\ TagInScope /\ MatchingIdx \cap PatternIdx # {}) =>
        /\ call.result.should_display = FALSE
        /\ call.result.matched_rule = Some(rules[MinOf(MatchingIdx \cap PatternIdx)])

\* C3 witness: a matching exempt rule precedes the pattern rule that hid the record
C3_Witness ==
    /\ IsFilterCall /\ TagInScope
    /\ MatchingIdx \cap PatternIdx # {}
    /\ MatchingIdx \ PatternIdx # {}
    /\ MinOf(MatchingIdx) < MinOf(MatchingIdx \cap PatternIdx)
    /\ ~call.result.should_display

\* C4: route_entry on a record that is not in scope reports the first rule
\* of any variant that matches as IGNORED, NOISE when none matches; in every
\* result a matched rule is present exactly when the category is IGNORED.
C4_RouteOutOfScope ==
    IsRouteCall =>
        /\ (~TagInScope /\ MatchingIdx # {}) =>
                /\ call.result.category = "IGNORED"
                /\ call.result.matched_rule = Some(rules[MinOf(MatchingIdx)])
        /\ (~TagInScope /\ MatchingIdx = {}) =>
                /\ call.result.category = "NOISE"
                /\ IsNone(call.result.matched_rule)
        /\ (~IsNone(call.result.matched_rule)) <=> (call.result.category = "IGNORED")

\* C4 witness: an out-of-scope record ignored by an exempt-kind rule that is
\* not the first rule of the set
C4_Witness ==
    /\ IsRouteCall /\ ~TagInScope
    /\ MatchingIdx # {}
    /\ MinOf(MatchingIdx) > 1
    /\ rules[MinOf(MatchingIdx)].kind \in {"TAG", "LEVEL", "TAGLEVEL"}
    /\ call.result.category = "IGNORED"

\* C5 as stated: whenever a rule is reported, it is the earliest rule of the
\* set that matches the record.
C5_Original ==
    ((IsFilterCall \/ IsRouteCall) /\ ~IsNone(call.result.matched_rule)) =>
        call.result.matched_rule = Some(rules[MinOf(MatchingIdx)])

\* The rules a call evaluates: all of them, except that filter_entry skips
\* the TAG, LEVEL and TAGLEVEL rules for an in-scope record
EvaluatedIdx ==
    IF IsFilterCall /\ TagInScope THEN MatchingIdx \cap PatternIdx ELSE MatchingIdx

\* C5 (amended): whenever a rule is reported, it is the earliest of the
\* matching rules that the call evaluates (for filter_entry on an in-scope
\* record the earliest matching pattern rule).
C5_FirstMatchWins ==
    ((IsFilterCall \/ IsRouteCall) /\ ~IsNone(call.result.matched_rule)) =>
        /\ EvaluatedIdx # {}
        /\ call.result.matched_rule = Some(rules[MinOf(EvaluatedIdx)])

\* C5 witness: two different evaluated rules match; the earlier was reported
C5_Witness ==
    /\ IsFilterCall
    /\ Cardinality({ rules[i] : i \in EvaluatedIdx }) >= 2
    /\ call.result.matched_rule = Some(rules[MinOf(EvaluatedIdx)])

\* C6: is_event_in_scope is true exactly when a scope is given, the tag is
\* present and non-empty and a member of the tag set; with no scope, an
\* empty tag set or an absent or empty tag, filter_entry applies every rule.
C6_ScopeTest ==
    /\ call.op = "is_event_in_scope" =>
            (call.result <=>
                /\ ~IsNone(scope_arg)
                /\ ~IsNone(entry_in.tag)
                /\ Val(entry_in.tag) # EmptyStr
                /\ Val(entry_in.tag) \in Val(scope_arg).tags)
    /\ ( /\ IsFilterCall
         /\ \/ IsNone(scope_arg)
            \/ Val(scope_config).tags = {}
            \/ IsNone(entry_in.tag)
            \/ entry_in.tag = Some(EmptyStr) ) =>
            call.result.matched_rule =
                IF MatchingIdx = {} THEN None ELSE Some(rules[MinOf(MatchingIdx)])

\* C6 witness: an empty tag that the tag set lists was judged out of scope
C6_Witness ==
    /\ call.op = "is_event_in_scope"
    /\ ~IsNone(scope_arg)
    /\ entry_in.tag = Some(EmptyStr)
    /\ EmptyStr \in Val(scope_arg).tags
    /\ call.result = FALSE

\* C6 witness (filter mode): an exempt-kind rule hid a record with an empty
\* tag although the tag set lists the empty tag
C6_WitnessFilter ==
    /\ IsFilterCall
    /\ entry_in.tag = Some(EmptyStr)
    /\ EmptyStr \in Val(scope_config).tags
    /\ ~IsNone(call.result.matched_rule)
    /\ Val(call.result.matched_rule).kind = "LEVEL"

(***************************************************************************)
(* Properties of the router                                                *)
(***************************************************************************)
\* The line without one trailing line break, if it has one
StripOneNL(line) ==
    IF Len(line) > 0 /\ line[Len(line)] = NL THEN SubSeq(line, 1, Len(line) - 1) ELSE line

\* The lines of wlog written to category c, each ended by one line break,
\* in write order, from entry i on
RECURSIVE ExpectedFrom(_, _)
ExpectedFrom(c, i) ==
    IF i > Len(wlog) THEN <<>>
    ELSE (IF wlog[i].category = c THEN StripOneNL(wlog[i].line) \o <<NL>> ELSE <<>>)
         \o ExpectedFrom(c, i + 1)

ThreeDifferentFiles ==
    /\ \A c \in CategorySet : config[c] \in FilePaths
    /\ Cardinality({ config[c] : c \in CategorySet }) = 3

\* C7: with three different files configured, after the writes and the
\* close (no write having raised) each file holds exactly the lines written
\* to its category, in write order, each ended by exactly one line break.
C7_DestinationCorrectness ==
    (with_pc = "after" /\ ThreeDifferentFiles /\ "write" \notin raised) =>
        \A c \in CategorySet : disk[config[c]] = ExpectedFrom(c, 1)

\* C7 witness: closed after two writes, to different categories, one line
\* with and one without its own line break
C7_Witness ==
    /\ with_pc = "after" /\ ThreeDifferentFiles /\ "write" \notin raised
    /\ Len(wlog) = 2
    /\ wlog[1].category # wlog[2].category
    /\ wlog[1].line # wlog[2].line

\* A step in which write(c, line) returns normally
WroteNow(c, line) ==
    /\ Len(wlog') = Len(wlog) + 1
    /\ wlog'[Len(wlog')] = [category |-> c, line |-> line]

\* C8: a write that returns has put the line, ended by one line break that
\* is added only if the line has none, at the position of its category's
\* stream, has changed no other destination, and has left nothing buffered.
C8_WriteFrame ==
    [][\A c \in CategorySet, line \in WriteLines :
        WroteNow(c, line) =>
            LET f == files[handles[c]]
                text == IF line[Len(line)] = NL THEN line ELSE line \o <<NL>>
            IN  /\ f.path \in FilePaths =>
                    /\ SubSeq(disk'[f.path], f.pos + 1, f.pos + Len(text)) = text
                    /\ Len(disk'[f.path]) = IF f.pos + Len(text) > Len(disk[f.path])
                                            THEN f.pos + Len(text) ELSE Len(disk[f.path])
                /\ f.path \in StdStreams => disk'[f.path] = disk[f.path] \o text
                /\ \A p \in DOMAIN disk : p # f.path => disk'[p] = disk[p]
                /\ \A h \in DOMAIN files' : files'[h].buf = <<>>
                /\ \A h \in DOMAIN files : h # handles[c] => files'[h] = files[h]
      ]_vars

\* C8 witness: a line with no line break of its own was written to a file
\* and one with a line break to another destination
C8_Witness ==
    /\ with_pc = "body"
    /\ Len(wlog) = 2
    /\ wlog[1].line = <<"a">> /\ wlog[2].line = <<"b", NL>>
    /\ config[wlog[1].category] \in FilePaths
    /\ config[wlog[2].category] # config[wlog[1].category]
    /\ disk[config[wlog[1].category]] = <<"a", NL>>

\* The streams the router opened: every stream object but the two shared ones
OwnedStreams == DOMAIN files \ StdStreams

\* C10: once __exit__ has run, every stream the router opened (file or
\* discard) is closed and the shared standard streams are not, also after a
\* write error and whichever closes raised; the only step that follows an
\* error in the with body is __exit__.
C10_CloseOwnedOnly ==
    /\ [](with_pc = "after" =>
            /\ \A h \in OwnedStreams : files[h].closed
            /\ \A h \in StdStreams : ~files[h].closed)
    /\ [][with_pc = "raised" =>
            /\ with_pc' = "after"
            /\ \A h \in OwnedStreams : files'[h].closed]_vars

\* C10 witness: closed after a write error, two closes having raised, with
\* a file stream, a discard stream and a standard stream in use
C10_Witness ==
    /\ with_pc = "after"
    /\ {"write", "close"} \subseteq raised
    /\ Cardinality(OwnedStreams) >= 2
    /\ \E h \in OwnedStreams : files[h].path = "/dev/null"
    /\ \E h \in OwnedStreams : files[h].path \in FilePaths
    /\ \E c \in CategorySet : config[c] \in StdStreams

(***************************************************************************)
(* Properties of the routing loop                                          *)
(***************************************************************************)
\* The line with its line break, if it ends with one, replaced by one line break
Normalized(line) == StripOneNL(line) \o <<NL>>

\* A turn of the routing loop has handled a line
RoutedNow == mon_pc = "loop" /\ ~raw /\ mon_pc' = "loop" /\ Len(mlog') = Len(mlog) + 1

\* What the turn has put at the destination of stream h
Delta(h) ==
    IF files[h].path \in StdStreams
    THEN SubSeq(disk'[files[h].path], Len(disk[files[h].path]) + 1, Len(disk'[files[h].path]))
    ELSE SubSeq(disk'[files[h].path], files[h].pos + 1, files'[h].pos)

\* The text the turn emitted is the line read, normalized, and it is what
\* arrived at the destination of the line's category
EmittedNormalized(e) ==
    /\ e.text = Normalized(e.line)
    /\ LET h == IF e.via = "console" THEN "stdout" ELSE handles[e.category]
       IN  ~is_devnull(files[h].path) => Delta(h) = e.text

\* C9 as stated: in routing mode the text emitted for every input line is the
\* raw line as received with its line terminator replaced by exactly one
\* line break, nothing else added, removed or altered.
C9_Original == [][RoutedNow => EmittedNormalized(mlog'[Len(mlog')])]_vars

\* C9, amended: in routing mode every input line that goes through
\* router.write (colour off, or the destination of its category is not
\* standard output) is emitted as the raw line as received with its line
\* terminator replaced by exactly one line break, nothing else added, removed
\* or altered.
C9_RawLineExact ==
    [][RoutedNow /\ mlog'[Len(mlog')].via = "router" => EmittedNormalized(mlog'[Len(mlog')])]_vars

\* Two lines went through router.write to a file or a standard stream, one
\* received with its line break and one cut off before it, one of them with
\* blanks at both ends
C9_Witness ==
    /\ mon_pc = "done"
    /\ ~raw
    /\ Len(mlog) = 2
    /\ \A i \in 1..2 : mlog[i].via = "router" /\ ~is_devnull(config[mlog[i].category])
    /\ mlog[1].line = LineNoise
    /\ mlog[2].line = LineCut

C12_OpenFailureIsFatal ==
    /\ []("open" \in raised =>
            /\ mlog = <<>>
            /\ wlog = <<>>
            /\ \A p \in DOMAIN disk : disk[p] \in {InitialDisk[p], <<>>}
            /\ \A h \in DOMAIN files : files[h].buf = <<>> /\ files[h].pos = 0
            /\ mon_pc \in {"finally", "done"})
    /\ [][("open" \in raised) => proc_stdout' = proc_stdout]_vars

\* C12 witness: the open of the second or third destination failed while
\* lines were waiting; the run ended with the subprocess waited for, the
\* file opened first truncated
C12_Witness ==
    /\ "open" \in raised
    /\ mon_pc = "done"
    /\ proc = "waited"
    /\ Len(proc_stdout) = 2
    /\ \E p \in FilePaths : disk[p] = <<>>

(***************************************************************************)
(* Properties of a failed write                                            *)
(***************************************************************************)
\* The text one write hands to its stream
WriteTexts == { write_text(line) : line \in WriteLines }

\* What path p holds beyond the lines written to category c by the writes
\* that returned: a set with the remainder, empty if p does not start with them
Remainder(c) ==
    LET expected == ExpectedFrom(c, 1)
        held == disk[config[c]]
    IN  IF Len(held) >= Len(expected) /\ SubSeq(held, 1, Len(expected)) = expected
        THEN {SubSeq(held, Len(expected) + 1, Len(held))}
        ELSE {}

\* C13: a write that fails leaves the with body with its error (nothing
\* catches it, nothing is written again); with three different files, each
\* file then holds the lines of the writes that returned, in order, followed
\* at most by the one line of the failed write, once, and only one file
\* holds such a line.
C13_WriteFailurePropagates ==
    /\ [][("write" \in raised' /\ "write" \notin raised) =>
            /\ with_pc' = "raised"
            /\ disk' = disk
            /\ wlog' = wlog]_vars
    /\ [][with_pc = "raised" => with_pc' = "after" /\ wlog' = wlog]_vars
    /\ []((ThreeDifferentFiles /\ "write" \in raised /\ with_pc \in {"raised", "after", "after_again"}) =>
            /\ \A c \in CategorySet : Remainder(c) \subseteq (WriteTexts \cup {<<>>})
            /\ \A c \in CategorySet : Remainder(c) # {}
            /\ Cardinality({ c \in CategorySet : Remainder(c) # {<<>>} }) <= 1)

\* C13 witness: after two writes that returned, a third failed; the router
\* was closed and the failed line reached its file through the close
C13_Witness ==
    /\ ThreeDifferentFiles
    /\ "write" \in raised
    /\ with_pc = "after"
    /\ Len(wlog) = 2
    /\ \E c \in CategorySet : Remainder(c) \subseteq WriteTexts /\ Remainder(c) # {}
                              /\ ExpectedFrom(c, 1) # <<>>

(***************************************************************************)
(* Properties of the order of the pipeline                                 *)
(***************************************************************************)
\* A turn of the loop has handled a line, in routing or in raw mode
HandledNow == mon_pc = "loop" /\ mon_pc' = "loop" /\ Len(mlog') = Len(mlog) + 1

\* The stream and the path a handled line goes to
StreamOf(e) == IF e.via = "console" THEN "stdout" ELSE handles[e.category]

PathOf(e) == IF e.via = "console" THEN "stdout" ELSE config[e.category]

\* The texts of the handled lines that went to path p, in the order handled,
\* from entry i on
RECURSIVE SeenAt(_, _)
SeenAt(p, i) ==
    IF i > Len(mlog) THEN <<>>
    ELSE (IF PathOf(mlog[i]) = p THEN mlog[i].text ELSE <<>>) \o SeenAt(p, i + 1)

\* No two categories are configured with the same file
NoSharedFile ==
    \A c, d \in CategorySet : (c # d /\ is_file(config[c])) => config[c] # config[d]

\* C14: each turn of the loop takes the oldest line not yet read, and before
\* the next line is read that line has been parsed, classified and written
\* once, in full, to the destination of its own category and to no other;
\* so what each destination has received is the text of the lines of its
\* categories in input order (checked on the content of every standard
\* stream, and of every file that no two categories share, as long as no
\* write was cut short by an error or an interrupt).
C14_ArrivalOrder ==
    /\ [][HandledNow =>
            LET e == mlog'[Len(mlog')]
            IN  /\ proc_stdout # <<>>
                /\ e.line = Head(proc_stdout)
                /\ proc_stdout' = Tail(proc_stdout)
                /\ SubSeq(mlog', 1, Len(mlog)) = mlog
                /\ ~raw => e.category = route_entry(rules, scope_config, parse_logcat_line(e.line)).category
                /\ ~is_devnull(PathOf(e)) => Delta(StreamOf(e)) = e.text
                /\ \A p \in DOMAIN disk : p # PathOf(e) => disk'[p] = disk[p]
                /\ \A h \in DOMAIN files' : files'[h].buf = <<>>]_vars
    /\ [][Len(mlog') # Len(mlog) => HandledNow]_vars
    /\ [](("write" \notin raised /\ "cut" \notin raised) =>
            /\ disk["stdout"] = SeenAt("stdout", 1)
            /\ disk["stderr"] = SeenAt("stderr", 1) \o (IF "interrupt" \in raised THEN Interrupted ELSE <<>>)
            /\ (NoSharedFile /\ with_pc \in {"body", "after"}) =>
                    \A c \in CategorySet : is_file(config[c]) => disk[config[c]] = SeenAt(config[c], 1))

\* C14 witness: two lines of different categories were handled, the first
\* to a file and the second to another destination that keeps what it gets
C14_Witness ==
    /\ mon_pc = "done"
    /\ ~raw
    /\ "write" \notin raised /\ "cut" \notin raised
    /\ Len(mlog) = 2
    /\ mlog[1].category # mlog[2].category
    /\ is_file(PathOf(mlog[1]))
    /\ PathOf(mlog[2]) # PathOf(mlog[1])
    /\ ~is_devnull(PathOf(mlog[2]))
    /\ disk[PathOf(mlog[1])] = mlog[1].text
    /\ disk[PathOf(mlog[2])] = mlog[2].text

(***************************************************************************)
(* Properties of the interrupt                                             *)
(***************************************************************************)
\* The content without the notice of the except clause at its end
WithoutNotice(content) ==
    IF /\ Len(content) >= Len(Interrupted)
       /\ SubSeq(content, Len(content) - Len(Interrupted) + 1, Len(content)) = Interrupted
    THEN SubSeq(content, 1, Len(content) - Len(Interrupted))
    ELSE content

\* What path p holds beyond the texts of the lines handled in full: a set
\* with the remainder, empty if p does not start with those texts
Beyond(p) ==
    LET flushed == SeenAt(p, 1)
        held == IF p = "stderr" THEN WithoutNotice(disk[p]) ELSE disk[p]
    IN  IF Len(held) >= Len(flushed) /\ SubSeq(held, 1, Len(flushed)) = flushed
        THEN {SubSeq(held, Len(flushed) + 1, Len(held))}
        ELSE {}

\* The destinations that hold what they get: the standard streams and, once
\* the router was entered, the configured files
KeptPaths ==
    StdStreams \cup (IF with_pc = "after" THEN { config[c] : c \in { d \in CategorySet : is_file(config[d]) } }
                     ELSE {})

\* A line of the subprocess, complete and ended by one line break
WholeLines == { Normalized(line) : line \in ProcLines }

\* A line of the subprocess, complete, without its line break
BareLines == { StripOneNL(line) : line \in ProcLines }

\* The subprocess is waited for and every stream the router opened is closed
ShutDown ==
    /\ mon_pc = "done"
    /\ proc = "waited"
    /\ handles = <<>> /\ opened_files = <<>>
    /\ \A h \in OwnedStreams : files[h].closed

\* An interrupt has arrived, no write has failed, no two categories share a file
AfterInterrupt == "interrupt" \in raised /\ "write" \notin raised /\ NoSharedFile

NoError == raised \subseteq {"close"}

\* C16: the end of the subprocess's output ends the loop only when every
\* line delivered has been handled; the run that started to read then
\* reaches its end with the router's streams closed and the subprocess
\* waited for; the end of the stream raises no error; as long as nothing is
\* raised no delivered line is dropped.
C16_EndOfStream ==
    /\ []((mon_pc = "done" /\ NoError) => (proc_stdout = <<>> /\ ShutDown))
    /\ [][(mon_pc = "loop" /\ mon_pc' = "finally" /\ proc_stdout' = proc_stdout
            /\ "interrupt" \notin raised') =>
                /\ proc_stdout = <<>>
                /\ raised' \ {"close"} = raised \ {"close"}]_vars
    /\ [][(raised' = raised) => Len(mlog') + Len(proc_stdout') = Len(mlog) + Len(proc_stdout)]_vars
    /\ (mon_pc = "loop") ~> (mon_pc = "done" /\ proc = "waited")

\* C16 witness: two lines were delivered and handled, the stream ended, the
\* run is over with a file closed and nothing raised
C16_Witness ==
    /\ mon_pc = "done"
    /\ raised = {}
    /\ ~raw
    /\ Len(mlog) = 2
    /\ proc_stdout = <<>>
    /\ ShutDown
    /\ \E h \in OwnedStreams : files[h].path \in FilePaths /\ files[h].closed

(***************************************************************************)
(* Properties of parse_logcat_line                                         *)
(***************************************************************************)
\* The call of parse_logcat_line has returned
Parsed == ~IsNone(parse_result)

\* What the five layouts make of str, in the order of PATTERNS
LayoutMatches(str) ==
    <<THREADTIME_PATTERN(str), TIME_PATTERN(str), BRIEF_PATTERN(str), TAG_PATTERN(str),
      PROCESS_PATTERN(str)>>

\* The layouts that match str
Hits(str) == { i \in 1..5 : ~IsNone(LayoutMatches(str)[i]) }

\* a is the start of b
IsPrefix(a, b) == Len(a) <= Len(b) /\ SubSeq(b, 1, Len(a)) = a

\* C17: parse_logcat_line returns a record for every line: the record has
\* all seven fields, its raw_line is the line (a start of the argument), and
\* when none of the five layouts matches, timestamp, pid, tid, level and tag
\* are absent and message is empty.
C17_AlwaysARecord ==
    /\ DOMAIN parse_logcat_line(line_in) =
            {"raw_line", "timestamp", "pid", "tid", "level", "tag", "message"}
    /\ Parsed =>
        LET e == Val(parse_result)
        IN  /\ DOMAIN e = {"raw_line", "timestamp", "pid", "tid", "level", "tag", "message"}
            /\ IsPrefix(e.raw_line, line_in)
            /\ Hits(e.raw_line) = {} =>
                    /\ IsNone(e.timestamp) /\ IsNone(e.pid) /\ IsNone(e.tid)
                    /\ IsNone(e.level) /\ IsNone(e.tag)
                    /\ e.message = <<>>

\* C17 witness: a line of no layout was parsed
C17_Witness ==
    /\ Parsed
    /\ line_in = <<"n", "o", NL>>
    /\ Val(parse_result).raw_line = <<"n", "o">>
    /\ Hits(<<"n", "o">>) = {}

\* C18: the record is built from the first layout, in the order thread-time,
\* time, brief, tag, process, that matches the line; a layout matches the
\* line to its end (the message is the end of the line); a line of the
\* brief and of the tag layout is parsed as brief, with its pid and with a
\* tag that stops before the bracket.
C18_LayoutPriority ==
    Parsed =>
        LET e == Val(parse_result)
            str == e.raw_line
            hits == Hits(str)
            first == CHOOSE i \in hits : \A j \in hits : i <= j
        IN  hits # {} =>
                /\ e = build_entry_from_match(str, Val(LayoutMatches(str)[first]))
                /\ Len(e.message) <= Len(str)
                /\ e.message = SubSeq(str, Len(str) - Len(e.message) + 1, Len(str))
                /\ ({3, 4} \subseteq hits /\ first = 3) =>
                        /\ ~IsNone(e.pid)
                        /\ ~IsNone(e.tag)
                        /\ \A i \in 1..Len(Val(e.tag)) : Val(e.tag)[i] # "("

\* C18 witness: a line of the brief and of the tag layout was parsed as brief
C18_Witness ==
    /\ Parsed
    /\ line_in = BodyBrief \o <<NL>>
    /\ {3, 4} \subseteq Hits(BodyBrief)
    /\ Val(parse_result).pid = Some(12)
    /\ Val(parse_result).tag = Some(<<"A">>)

\* The line without one line terminator (\r\n, \n or \r) at its end
WithoutOneTerminator(line) ==
    IF Len(line) >= 2 /\ line[Len(line) - 1] = CR /\ line[Len(line)] = NL
    THEN SubSeq(line, 1, Len(line) - 2)
    ELSE IF Len(line) >= 1 /\ line[Len(line)] \in {NL, CR}
    THEN SubSeq(line, 1, Len(line) - 1)
    ELSE line

\* C19 as stated: exactly one trailing line terminator is removed, every
\* other character, earlier terminator characters included, is kept.
C19_Original == Parsed => Val(parse_result).raw_line = WithoutOneTerminator(line_in)

\* C19, amended: every line feed and carriage return at the end of the line
\* is removed, however many there are; every character before them, line
\* feeds and carriage returns inside the line included, is kept.
C19_TrimsAllTerminators ==
    Parsed =>
        LET r == Val(parse_result).raw_line
        IN  /\ IsPrefix(r, line_in)
            /\ \A i \in (Len(r) + 1)..Len(line_in) : line_in[i] \in {NL, CR}
            /\ r # <<>> => r[Len(r)] \notin {NL, CR}

\* C19 witness: a line with a line feed inside and two at its end was parsed
C19_Witness ==
    /\ Parsed
    /\ line_in = BodyTag \o <<NL, "y", NL, NL>>
    /\ Val(parse_result).raw_line = BodyTag \o <<NL, "y">>

(***************************************************************************)
(* Properties of LogcatStreamParser                                        *)
(***************************************************************************)
\* The text fed so far is one line ended by a line feed
OneTerminatedLine(text) == text # <<>> /\ FirstNL(text) = Len(text)

\* The text before the line feed of a terminated line
LineBody(text) == SubSeq(text, 1, Len(text) - 1)

\* C20 as stated: a terminated line fed one character at a time yields
\* exactly one record, the one of the line fed whole; a text without a
\* terminator yields no record until flush.
C20_Original ==
    (parser_pc = "ready" /\ stream_rest = <<>>) =>
        /\ (OneTerminatedLine(stream_log.fed) /\ stream_log.longest = 1) =>
                /\ Len(records) = 1
                /\ records = feed(<<>>, stream_log.fed).records
        /\ FirstNL(stream_log.fed) = 0 => records = <<>>

\* C20, amended: whatever the chunks, one character at a time included, the
\* records yielded and the text kept back are those of feeding the same text
\* whole; a line ended by a line feed yields exactly one record, that of
\* parse_logcat_line for the line, when there is at least one character
\* before the line feed, and no record when the line feed stands alone; a
\* text without a line feed yields no record and is kept back whole; flush
\* empties the buffer and yields one record for the text kept back, or none
\* when that text is empty or only whitespace.
C20_StreamBuffering ==
    /\ [](parser_pc = "ready" =>
            /\ buffer = feed(<<>>, stream_log.fed).buffer
            /\ records = feed(<<>>, stream_log.fed).records
            /\ (OneTerminatedLine(stream_log.fed) /\ Len(stream_log.fed) > 1) =>
                    /\ records = <<parse_logcat_line(LineBody(stream_log.fed))>>
                    /\ buffer = <<>>
            /\ stream_log.fed = <<NL>> => records = <<>> /\ buffer = <<>>
            /\ FirstNL(stream_log.fed) = 0 => records = <<>> /\ buffer = stream_log.fed)
    /\ [][parser_pc' # parser_pc =>
            /\ buffer' = <<>>
            /\ Strip(buffer) # <<>> => records' = Append(records, parse_logcat_line(buffer))
            /\ Strip(buffer) = <<>> => records' = records]_vars

\* C20 witness: a line was fed one character at a time and gave one record
C20_Witness ==
    /\ parser_pc = "ready"
    /\ stream_log.fed = BodyTag \o <<NL>>
    /\ stream_log.longest = 1
    /\ Len(records) = 1
    /\ records[1].tag = Some(<<"A">>)
    /\ buffer = <<>>

(***************************************************************************)
(* Properties of the scope file                                            *)
(***************************************************************************)
\* The engine's scope was loaded from a scope file
ScopeLoaded == ~IsNone(scope_config) /\ "expected_tags" \in DOMAIN Val(scope_config)

\* The tag of the record is listed under expected_tags.tags of the file
TagListed ==
    /\ ~IsNone(entry_in.tag)
    /\ \E i \in 1..Len(Val(scope_config).expected_tags) :
            Val(scope_config).expected_tags[i] = Val(entry_in.tag)

\* C21: with the scope of a loaded scope file, a record whose tag is listed
\* under expected_tags.tags is routed to IN_SCOPE by route_entry and is hidden
\* by filter_entry only through a pattern rule; a record whose tag is not
\* listed is not routed to IN_SCOPE.
C21_ExpectedTagsAreInScope ==
    ScopeLoaded =>
        /\ call.op = "route_entry" => (call.result.category = "IN_SCOPE" <=> TagListed)
        /\ (call.op = "filter_entry" /\ TagListed /\ ~IsNone(call.result.matched_rule)) =>
                is_pattern_based_rule(Val(call.result.matched_rule))

(***************************************************************************)
(* Properties of the hooks                                                 *)
(***************************************************************************)
\* A call of filter_entry returns in this step
FilterReturns == call' # call \/ entry_in' # entry_in

\* The calls of one kind in a trace, in the order they were made
CallsOf(trace, kind) == SelectSeq(trace, LAMBDA c : c.kind = kind)

\* The pre-filters that return a result for the entry
Deciders(entry) ==
    { i \in 1..Len(pre_filters) : ~IsNone(pre_filter(pre_filters[i], entry)) }

\* The number of pre-filters called for the entry: up to the first that
\* returns a result
PreCalled(entry) ==
    IF Deciders(entry) = {} THEN Len(pre_filters)
    ELSE CHOOSE i \in Deciders(entry) : \A j \in Deciders(entry) : i <= j

\* The verdict of a trace: what the last call before the post-filters
\* returned
Verdict(trace, n) == IF trace[n].kind = "pre" THEN Val(trace[n].out) ELSE trace[n].out

\* C22: in filter_entry the pre-filters are called first, in registration
\* order, each with the record; the first that returns a result ends the
\* loop: no later pre-filter is called, the rules are not evaluated, and its
\* result is the verdict; when every pre-filter returns nothing the rules
\* are evaluated once, after the last pre-filter, and give the verdict.
C22_PreFiltersShortCircuit ==
    [][FilterReturns =>
        LET trace == call'.trace
            pres == CallsOf(trace, "pre")
            n == PreCalled(entry_in')
        IN  /\ Len(pres) = n
            /\ \A i \in 1..n :
                    /\ trace[i] = pres[i]
                    /\ pres[i].index = i
                    /\ pres[i].arg = entry_in'
                    /\ pres[i].out = pre_filter(pre_filters[i], entry_in')
                    /\ i < n => IsNone(pres[i].out)
            /\ Deciders(entry_in') # {} =>
                    /\ CallsOf(trace, "rules") = <<>>
                    /\ Len(trace) = n + Len(post_filters)
                    /\ Verdict(trace, n) = Val(pre_filter(pre_filters[n], entry_in'))
            /\ Deciders(entry_in') = {} =>
                    /\ Len(CallsOf(trace, "rules")) = 1
                    /\ Len(trace) = n + 1 + Len(post_filters)
                    /\ trace[n + 1].kind = "rules"
                    /\ Verdict(trace, n + 1) = filter_entry(rules, scope_config, entry_in')]_vars

\* C22 witness: the second of two pre-filters decided a record that a rule
\* would have hidden: the first returned nothing, no rule was evaluated
C22_Witness ==
    /\ call.op = "filter_entry"
    /\ pre_filters = <<"noop_filter", "always_show">>
    /\ Len(call.trace) >= 2
    /\ call.trace[1].kind = "pre" /\ IsNone(call.trace[1].out)
    /\ call.trace[2].kind = "pre" /\ ~IsNone(call.trace[2].out)
    /\ CallsOf(call.trace, "rules") = <<>>
    /\ ~filter_entry(rules, scope_config, entry_in).should_display
    /\ post_filters = <<>>
    /\ call.result.should_display

\* C23: the post-filters are the last calls of filter_entry, all of them, in
\* registration order; the first is given the verdict, whether the rules or
\* a pre-filter gave it, each next one the result of the one before, and
\* filter_entry returns the result of the last (the verdict when no
\* post-filter is registered).
C23_PostFiltersChain ==
    [][FilterReturns =>
        LET trace == call'.trace
            posts == CallsOf(trace, "post")
            n == Len(trace) - Len(post_filters)
        IN  /\ Len(posts) = Len(post_filters)
            /\ n >= 1
            /\ trace[n].kind \in {"pre", "rules"}
            /\ \A i \in 1..Len(posts) :
                    /\ trace[n + i] = posts[i]
                    /\ posts[i].index = i
                    /\ posts[i].arg = IF i = 1 THEN Verdict(trace, n) ELSE posts[i - 1].out
                    /\ posts[i].out = post_filter(post_filters[i], posts[i].arg)
            /\ call'.result = IF posts = <<>> THEN Verdict(trace, n) ELSE posts[Len(posts)].out]_vars

\* C23 witness: two post-filters ran on the verdict of a pre-filter, and the
\* second undid what the first had done
C23_Witness ==
    /\ call.op = "filter_entry"
    /\ post_filters = <<"force_hide", "force_show">>
    /\ Len(call.trace) = 3
    /\ call.trace[1].kind = "pre"
    /\ ~IsNone(call.trace[1].out)
    /\ Val(call.trace[1].out).should_display
    /\ call.trace[2].kind = "post" /\ ~call.trace[2].out.should_display
    /\ call.trace[3].kind = "post" /\ call.trace[3].arg = call.trace[2].out
    /\ call.result.should_display

(***************************************************************************)
(* Properties of FilterStats                                               *)
(***************************************************************************)
\* The positions of the recorded results that were displayed, and hidden
DisplayedAt == { i \in 1..Len(recorded) : recorded[i].should_display }

HiddenAt == { i \in 1..Len(recorded) : ~recorded[i].should_display }

\* The positions of the hidden results whose matched rule is rule
HiddenBy(rule) == { i \in HiddenAt : recorded[i].matched_rule = Some(rule) }

\* The rules a recorded result can carry
StatRules == { Val(r.matched_rule) : r \in { x \in StatResults : ~IsNone(x.matched_rule) } }

\* The sum of the counts stored under the keys of S
RECURSIVE SumCounts(_, _)
SumCounts(counts, S) ==
    IF S = {} THEN 0
    ELSE LET k == CHOOSE x \in S : TRUE
         IN  counts[k] + SumCounts(counts, S \ {k})

C25_PerIdentityCounts ==
    /\ [](LET counts == stats.rule_match_counts
          IN  /\ \A rule \in StatRules :
                    /\ rule_key(rule) \in DOMAIN counts <=> HiddenBy(rule) # {}
                    /\ rule_key(rule) \in DOMAIN counts =>
                            counts[rule_key(rule)] = Cardinality(HiddenBy(rule))
              /\ DOMAIN counts \subseteq { rule_key(rule) : rule \in StatRules }
              /\ SumCounts(counts, DOMAIN counts) <= stats.ignored_entries)
    /\ [][(Len(recorded') > Len(recorded) /\ recorded'[Len(recorded')].should_display) =>
            stats'.rule_match_counts = stats.rule_match_counts]_vars

\* C25 witness: two rules of one class hid results, one of them twice; a
\* displayed result that carries a rule and a hidden one that carries none
\* are not counted
C25_Witness ==
    /\ Cardinality(HiddenBy(IgnoreRuleTag(TagA))) = 2
    /\ Cardinality(HiddenBy(IgnoreRuleTag(TagB))) = 1
    /\ stats.rule_match_counts[rule_key(IgnoreRuleTag(TagA))] = 2
    /\ stats.rule_match_counts[rule_key(IgnoreRuleTag(TagB))] = 1
    /\ Len(recorded) = 4
    /\ recorded[4].should_display /\ ~IsNone(recorded[4].matched_rule)

(***************************************************************************)
(* Properties of a failed open and of shared files                         *)
(***************************************************************************)
\* C26: when the open for a later category fails in __enter__, every stream
\* the router opened for an earlier category is closed: after the failure
\* no stream of opened_files is open.
C26_NoHandleOutlivesFailedOpen ==
    with_pc = "enter_failed" =>
        \A i \in 1..Len(opened_files) : files[opened_files[i]].closed

\* The text of the writes that went to path p, in write order, from write
\* i on
RECURSIVE WrittenTo(_, _)
WrittenTo(p, i) ==
    IF i > Len(wlog) THEN <<>>
    ELSE (IF config[wlog[i].category] = p THEN write_text(wlog[i].line) ELSE <<>>)
            \o WrittenTo(p, i + 1)

\* C27: after writes and a close without error, every file that is the
\* target of a category, shared by two or three categories or not, holds
\* every line written to those categories, in write order.
C27_SharedFileKeepsEveryLine ==
    (with_pc = "after" /\ raised \cap {"open", "write", "close"} = {}) =>
        \A p \in FilePaths :
            (\E c \in CategorySet : config[c] = p) => disk[p] = WrittenTo(p, 1)

(***************************************************************************)
(* Chunking of the stream parser's input                                   *)
(***************************************************************************)
\* The records of a text fed whole and then flushed
WholeThenFlush(text) ==
    feed(<<>>, text).records
        \o (IF IsNone(flush(feed(<<>>, text).buffer).record) THEN <<>>
            ELSE <<Val(flush(feed(<<>>, text).buffer).record)>>)

\* C28: however the text fed was cut into chunks, the records of the feeds
\* and of the flush after them are the records of feeding the text in one
\* call and flushing; after the flush the buffer is empty, and a second
\* flush adds no record.
C28_ChunkingIndependent ==
    /\ [](parser_pc \in {"flushed", "flushed_again"} =>
            /\ records = WholeThenFlush(stream_log.fed)
            /\ buffer = <<>>)
    /\ [][(parser_pc = "flushed" /\ parser_pc' = "flushed_again") =>
            (records' = records /\ buffer' = <<>>)]_vars

\* C28 witness: a text of one whole line and an unfinished one, fed in
\* several chunks that cut the first line, was flushed twice
C28_Witness ==
    /\ parser_pc = "flushed_again"
    /\ stream_log.fed = BodyTag \o <<CR, NL>> \o BodyProcess
    /\ stream_log.longest = 3
    /\ Len(records) = 2
    /\ records[2].pid = Some(12)

(***************************************************************************)
(* The two modes of the classifier                                         *)
(***************************************************************************)
\* What filter_entry (no hooks) and route_entry return for the record of
\* the last call: the result the call returned, and the other mode's
\* result for the same engine and record
FilterSide ==
    IF call.op = "filter_entry" THEN call.result
    ELSE filter_entry(rules, scope_config, entry_in)

RouteSide ==
    IF call.op = "route_entry" THEN call.result
    ELSE route_entry(rules, scope_config, entry_in)

\* C29: for a record that is not in scope, filter_entry hides it exactly
\* when route_entry returns IGNORED and shows it exactly when route_entry
\* returns NOISE, and both report the same matched rule; a record in scope
\* is IN_SCOPE for route_entry, with no matched rule, whatever filter_entry
\* says.
C29_ModesAgreeOutOfScope ==
    call.op \in {"filter_entry", "route_entry"} =>
        IF is_event_in_scope(entry_in, scope_config)
        THEN RouteSide.category = "IN_SCOPE" /\ IsNone(RouteSide.matched_rule)
        ELSE /\ ~FilterSide.should_display <=> RouteSide.category = "IGNORED"
             /\ FilterSide.should_display <=> RouteSide.category = "NOISE"
             /\ FilterSide.matched_rule = RouteSide.matched_rule

\* C29 witness: a record out of scope, hidden by the second of its rules in
\* filter mode, with an engine whose scope is not empty
C29_Witness ==
    /\ call.op = "filter_entry"
    /\ ~IsNone(scope_config) /\ Val(scope_config).tags # {}
    /\ ~is_event_in_scope(entry_in, scope_config)
    /\ Len(rules) >= 2
    /\ call.result.matched_rule = Some(rules[2])
    /\ rules[1] # rules[2]
    /\ route_entry(rules, scope_config, entry_in).category = "IGNORED"

(***************************************************************************)
(* Properties of the pipes                                                 *)
(***************************************************************************)
\* The subprocess waits in a write to its standard error, whose pipe is full
ProducerBlocked ==
    /\ proc = "running"
    /\ producer # <<>>
    /\ Head(producer).fd = "stderr"
    /\ stderr_pipe = PipeCapacity

\* monitor() waits in the read of the next line of process.stdout
PipelineBlocked == mon_pc = "loop" /\ proc_stdout = <<>>

\* The subprocess has a line to write to its standard output
HasLineToEmit == \E i \in 1..Len(producer) : producer[i].fd = "stdout"

\* C30: the pipeline and the subprocess never wait for each other: whatever
\* the subprocess has written to its standard error, it is never the case
\* that the subprocess still has a line for its standard output, waits in a
\* write to standard error, and the pipeline waits for that line.
C30_NeverDeadlock == ~(HasLineToEmit /\ ProducerBlocked /\ PipelineBlocked)

====
